---- MODULE Spec2Model ----
(***************************************************************************)
(* A model of the local email agent's orchestration core:                  *)
(*   - the LangGraph turn machine of agent_graph.py                        *)
(*     (supervisor -> should_continue -> hitl_gate -> after_hitl -> tools) *)
(*   - the thread store and the run / resume handlers of api.py            *)
(*                                                                         *)
(* Specifications:                                                         *)
(*   Spec     one thread of the agent graph, driven by start and resume    *)
(*   SpecApi  the HTTP handlers of api.py over the thread store            *)
(*   SpecStatus  SpecApi with the status operations (GET)                  *)
(*   SpecLive    the turn machine with its scheduling and step limit       *)
(*   SpecStream  the event stream of a run on one thread                   *)
(*   SpecRec     the supervisor's walk over a given log                    *)
(*   SpecSub     the tools node and the sub-agent loop on one call         *)
(*   SpecFix     the supervisor's argument repair on a given decision      *)
(***************************************************************************)
EXTENDS Integers, Sequences, FiniteSets, TLC

(***************************************************************************)
(* Bounds of the model                                                     *)
(***************************************************************************)
\* supervisor passes made on the thread
MaxPasses == 2
\* start requests (graph.ainvoke with a new input) made on the thread
MaxStarts == 2

(***************************************************************************)
(* Python values                                                           *)
(***************************************************************************)
\* a mapping (dict) is a function from string keys; {} is the empty one
EmptyMap == [k \in {} |-> ""]

\* dict.get(key, default)
Get(m, k, d) == IF k \in DOMAIN m THEN m[k] ELSE d

\* the payload of a human response ("args" of ResumeRequest): None, a string
\* or a mapping
PNone == [kind |-> "none", val |-> ""]
PStr(s) == [kind |-> "str", val |-> s]
PMap(m) == [kind |-> "map", val |-> m]

\* Python truthiness of a payload: None, "" and {} are falsy
Truthy(p) ==
    CASE p.kind = "none" -> FALSE
      [] p.kind = "str" -> p.val # ""
      [] p.kind = "map" -> DOMAIN p.val # {}

\* Str with the payload lost: str() of a value that is None
Str_none(p) == "None"

\* str(payload), as used for the content of the response message
Str(p) ==
    CASE p.kind = "none" -> "None"
      [] p.kind = "str" -> p.val
      [] p.kind = "map" -> "{..}"

(***************************************************************************)
(* Messages (langchain_core.messages)                                      *)
(***************************************************************************)
\* id 0 is "no id yet" (None); the reducer gives a fresh one on append
HumanMessage(c) ==
    [type |-> "human", content |-> c, tool_calls |-> << >>, name |-> "", id |-> 0]

AIMessage(c, tcs) ==
    [type |-> "ai", content |-> c, tool_calls |-> tcs, name |-> "", id |-> 0]

ToolMessage(c, n) ==
    [type |-> "tool", content |-> c, tool_calls |-> << >>, name |-> n, id |-> 0]

Last(s) == s[Len(s)]

\* messages[:-1]
ButLast(s) == SubSeq(s, 1, Len(s) - 1)

\* add_messages with the reducer lost: a plain channel, where the update
\* takes the place of the log
add_messages_overwrite(left, right) == right

\* The reducer of the State's "messages" channel.  The log is append-only:
\* a message of the update whose id is already in the log replaces that
\* entry in place, any other message is appended with a fresh id.
RECURSIVE add_messages(_, _)
add_messages(left, right) ==
    IF right = << >> THEN left
    ELSE LET m == Head(right)
             idx == {i \in 1..Len(left) : m.id # 0 /\ left[i].id = m.id}
         IN IF idx # {}
            THEN add_messages([left EXCEPT ![CHOOSE i \in idx : TRUE] = m], Tail(right))
            ELSE add_messages(Append(left, [m EXCEPT !.id = Len(left) + 1]), Tail(right))

(***************************************************************************)
(* Tool vocabulary                                                         *)
(***************************************************************************)
EMAIL_MCP_TOOLS ==
    {"list-mail-messages", "create-draft-email", "get-mail-message", "send-mail"}

CALENDAR_MCP_TOOLS ==
    {"get-calendar-view", "list-calendar-events", "get-calendar-event",
     "create-calendar-event", "update-calendar-event", "delete-calendar-event"}

HITL_TOOL_NAMES ==
    {"send-mail", "create-calendar-event", "create-specific-calendar-event",
     "manage_email", "Question"}

\* the supervisor's tools: search_email_history, Question and Done always,
\* manage_calendar / manage_email only when MCP tools of that kind loaded
supervisor_tools(mcp) ==
    {"search_email_history", "Question", "Done"}
        \cup (IF mcp \cap CALENDAR_MCP_TOOLS # {} THEN {"manage_calendar"} ELSE {})
        \cup (IF mcp \cap EMAIL_MCP_TOOLS # {} THEN {"manage_email"} ELSE {})

(***************************************************************************)
(* Inputs drawn by the model                                               *)
(***************************************************************************)
\* no question and no email_input in the request
NoInput == ""

Questions == {"q1", "q2"}

\* what load_mcp_tools can return: tools of the server (here a read and a
\* write tool of each kind), or [] when loading failed
McpLoads ==
    {{"list-mail-messages", "send-mail", "get-calendar-view", "create-calendar-event"},
     {}}

\* what the completion service can return for a supervisor prompt: any tool
\* name with any arguments, or nothing that parses (kind "fail")
LlmOutputs ==
    {[kind |-> "fail", name |-> "", args |-> EmptyMap],
     [kind |-> "ok", name |-> "manage_email", args |-> [request |-> "r1"]],
     [kind |-> "ok", name |-> "manage_calendar", args |-> EmptyMap],
     [kind |-> "ok", name |-> "search_email_history", args |-> [query |-> "k1"]],
     [kind |-> "ok", name |-> "Done", args |-> [answer |-> "a1"]],
     [kind |-> "ok", name |-> "Question", args |-> [question |-> "c1"]],
     [kind |-> "ok", name |-> "send-mail", args |-> [to |-> "x1"]],
     [kind |-> "ok", name |-> "no-such-tool", args |-> EmptyMap]}

\* the payloads a resume request can carry: None, a string, a mapping
Payloads ==
    {PNone, PStr("t1"), PMap(EmptyMap), PMap([args |-> [request |-> "r2"]]),
     PMap([request |-> "r2"])}

\* the values hitl_gate can be resumed with: the API always sends a dict
\* {"type": ..., "args": ...} with one of the four types of ResumeRequest;
\* accept and ignore carry no payload, response a text (which may be the
\* text of a question) or none
ResumeValues ==
    {[dict |-> TRUE, type |-> "accept", args |-> PNone],
     [dict |-> TRUE, type |-> "ignore", args |-> PNone],
     [dict |-> TRUE, type |-> "response", args |-> PNone],
     [dict |-> TRUE, type |-> "response", args |-> PStr("t1")],
     [dict |-> TRUE, type |-> "response", args |-> PStr("q1")]}
        \cup {[dict |-> TRUE, type |-> "edit", args |-> p] : p \in Payloads}

\* hitl_gate running for the first time: interrupt() has nothing to return
NoResume == [dict |-> FALSE, type |-> "(no resume)", args |-> PNone]

(***************************************************************************)
(* supervisor                                                              *)
(***************************************************************************)
IsDone(tc) == tc.name = "Done"

\* the lines one message adds to conversation_history; f"User: {x}" and
\* f"Assistant: {x}" are the pairs <<"User", x>> and <<"Assistant", x>>
HistoryOf(m) ==
    CASE m.type = "human" -> << <<"User", m.content>> >>
      [] m.type = "ai" ->
            IF m.tool_calls # << >>
            THEN LET d == SelectSeq(m.tool_calls, IsDone)
                 IN [i \in 1..Len(d) |-> <<"Assistant", Get(d[i].args, "answer", "")>>]
            ELSE IF m.content # "" THEN << <<"Assistant", m.content>> >> ELSE << >>
      [] OTHER -> << >>

RECURSIVE conversation_history(_)
conversation_history(msgs) ==
    IF msgs = << >> THEN << >>
    ELSE conversation_history(ButLast(msgs)) \o HistoryOf(Last(msgs))

current_user_in_history(msgs, user_message) ==
    LET h == conversation_history(msgs)
    IN \E i \in 1..Len(h) : h[i] = <<"User", user_message>>

\* need_human_message with the test lost
need_human_message_always(msgs, user_message) == TRUE

need_human_message(msgs, user_message) ==
    msgs = << >> \/ ~current_user_in_history(msgs, user_message)

\* FixArgs with the repair lost: the arguments are passed on as they came
FixArgs_none(name, tool_args, user_message) == tool_args

\* m[k] = v
SetKey(m, k, v) == [x \in DOMAIN m \cup {k} |-> IF x = k THEN v ELSE m[x]]

\* "Validate and fix common issues with tool args"
FixArgs(name, tool_args, user_message) ==
    CASE name = "manage_calendar" /\ Get(tool_args, "request", "") = "" ->
            SetKey(tool_args, "request", user_message)
      [] name = "manage_email" /\ Get(tool_args, "request", "") = "" ->
            SetKey(tool_args, "request", user_message)
      [] name = "search_email_history" /\ Get(tool_args, "query", "") = "" ->
            SetKey(SetKey(tool_args, "query", user_message),
                   "top_k", Get(tool_args, "top_k", 5))
      [] OTHER -> tool_args

\* the tool_calls of the AIMessage the supervisor builds: exactly one
ToolCalls(name, tool_args) == << [name |-> name, args |-> tool_args] >>

\* ErrorReply with the text the specification names
ErrorReply_could_not == AIMessage("I could not complete the request", << >>)

\* ErrorReply with a tool call in it
ErrorReply_with_call ==
    AIMessage("Error", << [name |-> "search_email_history", args |-> EmptyMap] >>)

\* AIMessage(content=f"Error: {e}"), the reply of the except block; the
\* text of the exception is left out
ErrorReply == AIMessage("Error", << >>)

\* the update the supervisor node returns for the log msgs, the current
\* input and the completion service's output
supervisor(msgs, user_message, out) ==
    IF user_message = NoInput
    THEN << AIMessage("No input provided.", << >>) >>
    ELSE LET reply ==
                 IF out.kind = "fail"
                 THEN ErrorReply
                 ELSE AIMessage("", ToolCalls(out.name,
                                    FixArgs(out.name, out.args, user_message)))
         IN IF need_human_message(msgs, user_message)
            THEN << HumanMessage(user_message), reply >>
            ELSE << reply >>

\* should_continue with Question left to the approval gate
should_continue_done_only(msgs) ==
    IF msgs = << >> THEN "END"
    ELSE LET tcs == Last(msgs).tool_calls
         IN IF tcs # << >>
            THEN IF \E i \in 1..Len(tcs) : tcs[i].name = "Done"
                 THEN "END"
                 ELSE "hitl_gate"
            ELSE "END"

should_continue(msgs) ==
    IF msgs = << >> THEN "END"
    ELSE LET tcs == Last(msgs).tool_calls
         IN IF tcs # << >>
            THEN IF \E i \in 1..Len(tcs) : tcs[i].name \in {"Done", "Question"}
                 THEN "END"
                 ELSE "hitl_gate"
            ELSE "END"

(***************************************************************************)
(* hitl_gate                                                               *)
(***************************************************************************)
get_hitl_config(tool_name) ==
    IF tool_name = "Question"
    THEN [allow_ignore |-> TRUE, allow_respond |-> TRUE,
          allow_edit |-> FALSE, allow_accept |-> FALSE]
    ELSE [allow_ignore |-> TRUE, allow_respond |-> TRUE,
          allow_edit |-> TRUE, allow_accept |-> TRUE]

\* the approval request handed to interrupt()
create_interrupt(action, args) ==
    [action_request |-> [action |-> action, args |-> args],
     config |-> get_hitl_config(action)]

\* EditArgs with the edit lost: the original arguments are kept
EditArgs_original(response_args, tool_args) == tool_args

\* new_args = response_args.get("args", tool_args)
EditArgs(response_args, tool_args) == Get(response_args, "args", tool_args)

Min(S) == CHOOSE x \in S : \A y \in S : x <= y

\* Gated with the test lost: every tool call needs approval
Gated_all(tcs) == 1..Len(tcs)

\* the indices of the tool calls that need approval
Gated(tcs) == {i \in 1..Len(tcs) : tcs[i].name \in HITL_TOOL_NAMES}

\* One execution of the node on the log msgs; response is what interrupt()
\* returns (NoResume: nothing yet, so interrupt() suspends the run).
\* The result is one of
\*   [kind |-> "interrupt", data]   the run suspends with an approval request
\*   [kind |-> "return", messages]  the node returns this "messages" update
\*   [kind |-> "raise"]             the node raises
hitl_gate(msgs, response) ==
    IF msgs = << >> THEN [kind |-> "return", messages |-> msgs]
    ELSE IF Gated(Last(msgs).tool_calls) = {}
    THEN [kind |-> "return", messages |-> msgs]
    ELSE
      LET last_message == Last(msgs)
          tcs == last_message.tool_calls
          i == Min(Gated(tcs))
          tool_args == tcs[i].args
          \* the loop goes on to the next tool call: a further gated call
          \* meets interrupt() with no value left to return
          goOn(calls) ==
              IF Gated(tcs) \ {i} # {}
              THEN LET j == Min(Gated(tcs) \ {i})
                   IN [kind |-> "interrupt",
                       data |-> create_interrupt(calls[j].name, calls[j].args)]
              ELSE [kind |-> "return",
                    messages |-> [msgs EXCEPT ![Len(msgs)].tool_calls = calls]]
      IN IF response = NoResume
         THEN [kind |-> "interrupt",
               data |-> create_interrupt(tcs[i].name, tool_args)]
         ELSE IF ~response.dict THEN goOn(tcs)
         ELSE IF response.type = "ignore"
         THEN [kind |-> "return", messages |-> ButLast(msgs)]
         ELSE IF response.type = "edit" /\ Truthy(response.args)
         THEN IF response.args.kind # "map"
              THEN [kind |-> "raise"]
              ELSE goOn([tcs EXCEPT ![1].args = EditArgs(response.args.val, tool_args)])
         ELSE IF response.type = "response"
         THEN [kind |-> "return",
               messages |-> msgs \o << HumanMessage(Str(response.args)) >>]
         ELSE goOn(tcs)

\* after_hitl without the route to the tools node
after_hitl_no_tools(msgs) ==
    IF msgs = << >> THEN "END"
    ELSE IF Last(msgs).type = "human" THEN "supervisor"
    ELSE "END"

after_hitl(msgs) ==
    IF msgs = << >> THEN "END"
    ELSE IF Last(msgs).tool_calls # << >> THEN "tools"
    ELSE IF Last(msgs).type = "human" THEN "supervisor"
    ELSE "END"

\* interrupt() suspending the run: the request is kept with the checkpoint
interrupt_raise(p, data) == p \cup {data}

\* interrupt_resume with the decided request left in the checkpoint
interrupt_resume_keep(p) == p

\* interrupt() returning the resume value: the node runs to its end and the
\* request it was suspended on is gone from the next checkpoint
interrupt_resume(p) == {}

(***************************************************************************)
(* tools (ToolNode over supervisor_tools) and the sub-agents               *)
(***************************************************************************)
\* the MCP tools one run_sub_agent call invokes over its iterations:
\* whatever its completion service selects among tools_by_name
SubAgentRuns(tools) == SUBSET tools

\* what executing the call tc can do: out is "unknown" (no such tool),
\* "invalid" (arguments rejected, tool not run), "ok" or "error" (tool
\* raised); sub holds the MCP tools a sub-agent invoked meanwhile
ToolOutcomes(tc, mcp) ==
    LET invalid == {[out |-> "invalid", content |-> "Error: invalid arguments",
                     sub |-> {}]}
    IN IF tc.name \notin supervisor_tools(mcp)
       THEN {[out |-> "unknown", content |-> "Error: not a valid tool", sub |-> {}]}
       ELSE CASE tc.name = "manage_email" ->
                   IF "request" \notin DOMAIN tc.args THEN invalid
                   ELSE {[out |-> "ok", content |-> "sub-agent answer", sub |-> s] :
                            s \in SubAgentRuns(mcp \cap EMAIL_MCP_TOOLS)}
              [] tc.name = "manage_calendar" ->
                   IF "request" \notin DOMAIN tc.args THEN invalid
                   ELSE {[out |-> "ok", content |-> "sub-agent answer", sub |-> s] :
                            s \in SubAgentRuns(mcp \cap CALENDAR_MCP_TOOLS)}
              [] tc.name = "search_email_history" ->
                   IF "query" \notin DOMAIN tc.args THEN invalid
                   ELSE {[out |-> "ok", content |-> "No emails found.", sub |-> {}],
                         [out |-> "ok", content |-> "1. From: ..", sub |-> {}],
                         [out |-> "error", content |-> "Error: search failed",
                          sub |-> {}]}
              [] OTHER -> {[out |-> "ok", content |-> "", sub |-> {}]}

(***************************************************************************)
(* State of one thread of the graph                                        *)
(***************************************************************************)
VARIABLES
    mcp_tools,  \* the MCP tools load_mcp_tools returned
    question,   \* State["question"], the current input
    messages,   \* State["messages"], the message log
    pc,         \* the node to run next: "supervisor", "hitl_gate", "tools";
                \* "interrupted" (suspended in hitl_gate), "END", "failed"
    pending,    \* the approval requests the checkpoint holds
    trace,      \* what happened so far, in order: supervisor passes
                \* ("select", with "fail" when the decision call raised),
                \* approval requests ("interrupt"), human
                \* decisions ("decision") and tool executions ("exec", with
                \* the MCP tools invoked inside)
    passes,     \* supervisor passes made
    starts,     \* start requests made
    run_from    \* the length of the trace when the current run was started

gvars == <<mcp_tools, question, messages, pc, pending, trace, passes, starts, run_from>>

(***************************************************************************)
(* State of the API process (api.py)                                       *)
(***************************************************************************)
VARIABLES
    threads,    \* thread_store.threads: thread id -> stored thread, or NoThread
    graph,      \* _graph: "none" until get_graph built it, then "ready"
    checkpoint, \* per thread id, what the graph's checkpointer holds:
                \* "none", "interrupted" (state.next is not empty) or "ended"
    requests,   \* the HTTP requests made so far, each with the place its
                \* handler has reached
    resumes     \* the resume requests that passed the status check, each
                \* with the stored result (the interrupt) it found

avars == <<threads, graph, checkpoint, requests, resumes>>

(***************************************************************************)
(* State of one event stream (_run_graph_with_streaming)                   *)
(***************************************************************************)
VARIABLES
    generator,  \* "none", "opened_start" / "opened_resume" (the handler
                \* returned the StreamingResponse), "running" (the generator
                \* is inside astream_events), "closed" (the generator ended)
    sse,        \* the server-sent events the generator yielded, in order
    emitted_tool_calls  \* the call keys already emitted as tool_call events

svars == <<generator, sse, emitted_tool_calls>>

(***************************************************************************)
(* State of a supervisor pass over a given log (the history walk)          *)
(***************************************************************************)
VARIABLES
    rlog,       \* the message log handed to the supervisor
    rinput,     \* the current input (user_message)
    rec         \* what the walk derived from them, or NoRec before it ran

rvars == <<rlog, rinput, rec>>

(***************************************************************************)
(* State of one run of a sub-agent (run_sub_agent)                         *)
(***************************************************************************)
VARIABLES
    sub_pc,          \* "none", "select" (a pass of the loop is to begin),
                     \* "returned" (run_sub_agent returned), "done" (the
                     \* tools node took the answer)
    iteration,       \* passes of the loop begun
    tools_by_name,   \* the names of the sub-agent's MCP tools
    tool_request,    \* what the last decision call of the loop gave (in
                     \* SpecFix: what the supervisor's decision call gives)
    tool_results,    \* the entries of tool_results, in order
    last_raw_result, \* the raw output of the last tool that returned
    invocations,     \* the calls of tool.ainvoke made, with their outcome
    sub_return       \* what run_sub_agent returned

uvars == <<sub_pc, iteration, tools_by_name, tool_request, tool_results,
           last_raw_result, invocations, sub_return>>

(***************************************************************************)
(* State of the services beside the graph                                  *)
(***************************************************************************)
VARIABLES
    foundry,    \* FoundryService: its class attributes and the fields of
                \* its instance, the lock's holder, and how many instances
                \* and managers were constructed
    callers,    \* the threads that call get_foundry_llm: where each one
                \* is, the calls it made and how its last call ended
    dates,      \* one call of get_date_range_for_query
    bulk,       \* one call of bulk_import_emails
    search      \* one call of search_email_history on the text search

evars == <<foundry, callers, dates, bulk, search>>

\* the part is not run
NotRun == [at |-> "(not run)"]

EInit ==
    /\ foundry = NotRun
    /\ callers = NotRun
    /\ dates = NotRun
    /\ bulk = NotRun
    /\ search = NotRun

vars == <<gvars, avars, svars, rvars, uvars, evars>>

\* an entry of the trace; len is the length of the log after the step
Event(ev, name, args, out, sub, len) ==
    [ev |-> ev, name |-> name, args |-> args, out |-> out, sub |-> sub, len |-> len]

GInit ==
    /\ mcp_tools \in McpLoads
    /\ question = NoInput
    /\ messages = << >>
    /\ pc = "END"
    /\ pending = {}
    /\ trace = << >>
    /\ passes = 0
    /\ starts = 0
    /\ run_from = 0

\* graph.ainvoke(input_data, config): a new input on the thread.  The input
\* is written to the state, what the last checkpoint left unfinished is
\* discarded and the graph runs from START.
StartRun(q) ==
    /\ pc \in {"END", "interrupted", "failed"}
    /\ starts < MaxStarts
    /\ starts' = starts + 1
    /\ run_from' = Len(trace)
    /\ question' = q
    /\ pending' = {}
    /\ pc' = "supervisor"
    /\ UNCHANGED <<mcp_tools, messages, trace, passes, avars>>

\* the supervisor node, then the conditional edge should_continue
Supervisor ==
    /\ pc = "supervisor"
    /\ passes < MaxPasses
    /\ passes' = passes + 1
    /\ \E out \in LlmOutputs :
         /\ messages' = add_messages(messages, supervisor(messages, question, out))
         /\ pc' = should_continue(messages')
         /\ trace' = Append(trace, Event("select", Last(messages').content,
                                         Last(messages').tool_calls,
                                         IF question = NoInput THEN "" ELSE out.kind,
                                         {}, Len(messages')))
    /\ UNCHANGED <<mcp_tools, question, pending, starts, run_from, avars>>

\* hitl_gate reached from the supervisor, then the conditional edge
\* after_hitl unless the node suspended
HitlGate ==
    /\ pc = "hitl_gate"
    /\ LET r == hitl_gate(messages, NoResume)
       IN IF r.kind = "interrupt"
          THEN /\ pending' = interrupt_raise(pending, r.data)
               /\ pc' = "interrupted"
               /\ trace' = Append(trace, Event("interrupt", r.data.action_request.action,
                                               r.data.action_request.args, "", {},
                                               Len(messages)))
               /\ UNCHANGED messages
          ELSE /\ messages' = add_messages(messages, r.messages)
               /\ pc' = after_hitl(messages')
               /\ UNCHANGED <<pending, trace>>
    /\ UNCHANGED <<mcp_tools, question, passes, starts, run_from, avars>>

\* graph.ainvoke(Command(resume=human_response), config): hitl_gate runs
\* again with interrupt() returning the response, then after_hitl
ResumeRun(response) ==
    /\ pc = "interrupted"
    /\ LET r == hitl_gate(messages, response)
           decided(len) ==
               Append(trace, Event("decision", response.type, response.args, "", {}, len))
       IN CASE r.kind = "raise" ->
                 /\ pc' = "failed"
                 /\ trace' = decided(Len(messages))
                 /\ UNCHANGED <<messages, pending>>
            [] r.kind = "interrupt" ->
                 /\ pending' = interrupt_raise(interrupt_resume(pending), r.data)
                 /\ pc' = "interrupted"
                 /\ trace' = Append(decided(Len(messages)),
                                    Event("interrupt", r.data.action_request.action,
                                          r.data.action_request.args, "", {},
                                          Len(messages)))
                 /\ UNCHANGED messages
            [] OTHER ->
                 /\ messages' = add_messages(messages, r.messages)
                 /\ pending' = interrupt_resume(pending)
                 /\ pc' = after_hitl(messages')
                 /\ trace' = decided(Len(messages'))
    /\ UNCHANGED <<mcp_tools, question, passes, starts, run_from, avars>>

\* the tools node: the tool call of the last message is executed and its
\* result appended; then the edge back to the supervisor
Tools ==
    /\ pc = "tools"
    /\ LET tc == Last(messages).tool_calls[1]
       IN \E o \in ToolOutcomes(tc, mcp_tools) :
            /\ messages' = add_messages(messages, << ToolMessage(o.content, tc.name) >>)
            /\ trace' = Append(trace, Event("exec", tc.name, tc.args, o.out, o.sub,
                                            Len(messages')))
    /\ pc' = "supervisor"
    /\ UNCHANGED <<mcp_tools, question, pending, passes, starts, run_from, avars>>

(***************************************************************************)
(* The thread store and the handlers of api.py                             *)
(*                                                                         *)
(* The handlers are coroutines of one event loop: a handler runs without   *)
(* interruption from one suspending await to the next.  ThreadStore's      *)
(* methods never suspend (the lock is only held across code that does not  *)
(* await), so the only places a handler gives way to another request are   *)
(* the graph's execution and the construction of the graph.                *)
(***************************************************************************)
ThreadIds == {"t1", "t2"}

\* requests made in one behaviour
MaxRequests == 3

NoThread == [status |-> "(no thread)"]

\* ThreadStore.create_thread
create_thread(ths, thread_id) ==
    [ths EXCEPT ![thread_id] = [status |-> "idle", interrupt |-> FALSE, state |-> 0]]

\* update_status with the update lost
update_status_lost(ths, thread_id, status) == ths

\* ThreadStore.update_thread(thread_id, status=...)
update_status(ths, thread_id, status) ==
    [ths EXCEPT ![thread_id].status = status]

\* update_result that never clears a stored interrupt
update_result_keep(ths, thread_id, status, interrupt, r) ==
    [ths EXCEPT ![thread_id] = [status |-> status,
                                interrupt |-> interrupt \/ ths[thread_id].interrupt,
                                state |-> r]]

\* ThreadStore.update_thread(thread_id, status=, interrupt=, state=, messages=);
\* the stored result is named by the request that produced it
update_result(ths, thread_id, status, interrupt, r) ==
    [ths EXCEPT ![thread_id] = [status |-> status, interrupt |-> interrupt, state |-> r]]

Request(kind, thread_id, at, http) ==
    [kind |-> kind, thread_id |-> thread_id, at |-> at, http |-> http]

AInit ==
    /\ threads = [t \in ThreadIds |-> NoThread]
    /\ graph = "none"
    /\ checkpoint = [t \in ThreadIds |-> "none"]
    /\ requests = << >>
    /\ resumes = {}

\* get_graph(): the graph when it is built already, else create_agent_graph()
\* builds it or raises
GetGraph == IF graph = "ready" THEN {"ready"} ELSE {"ready", "raise"}

\* POST /runs and POST /runs/stream up to the execution of the graph:
\* get or create the thread, mark it busy, get the graph
StartRequest(thread_id, stream) ==
    /\ Len(requests) < MaxRequests
    /\ LET had == threads[thread_id] # NoThread
           ths == update_status(IF had THEN threads ELSE create_thread(threads, thread_id),
                                thread_id, "busy")
           kind == IF stream THEN "run_stream" ELSE "run"
       IN \E g \in GetGraph :
            IF g = "ready"
            THEN /\ graph' = "ready"
                 /\ threads' = ths
                 /\ requests' = Append(requests, Request(kind, thread_id, "in_graph", 0))
            ELSE \* create_run catches and records the error; create_run_stream
                 \* calls get_graph outside any try
                 /\ graph' = graph
                 /\ threads' = IF stream THEN ths
                               ELSE update_status(ths, thread_id, "error")
                 /\ requests' = Append(requests, Request(kind, thread_id, "done", 500))
    /\ UNCHANGED <<checkpoint, resumes, gvars>>

\* the status check of resume with busy and error let through
not_interrupted_idle_only(thread) == thread.status = "idle"

\* thread["status"] != "interrupted"
not_interrupted(thread) == thread.status # "interrupted"

\* POST /threads/{id}/resume and .../resume/stream up to the execution of
\* the graph: 404 for an unknown thread, 400 unless it is interrupted, else
\* mark it busy and get the graph
ResumeRequest(thread_id, stream) ==
    /\ Len(requests) < MaxRequests
    /\ LET kind == IF stream THEN "resume_stream" ELSE "resume"
       IN IF threads[thread_id] = NoThread
          THEN /\ requests' = Append(requests, Request(kind, thread_id, "done", 404))
               /\ UNCHANGED <<threads, graph, resumes>>
          ELSE IF not_interrupted(threads[thread_id])
          THEN /\ requests' = Append(requests, Request(kind, thread_id, "done", 400))
               /\ UNCHANGED <<threads, graph, resumes>>
          ELSE LET ths == update_status(threads, thread_id, "busy")
               IN /\ resumes' = resumes \cup
                        {[request |-> Len(requests) + 1, thread_id |-> thread_id,
                          state |-> threads[thread_id].state]}
                  /\ \E g \in GetGraph :
                        IF g = "ready"
                        THEN /\ graph' = "ready"
                             /\ threads' = ths
                             /\ requests' = Append(requests,
                                                   Request(kind, thread_id, "in_graph", 0))
                        ELSE /\ graph' = graph
                             /\ threads' = IF stream THEN ths
                                           ELSE update_status(ths, thread_id, "error")
                             /\ requests' = Append(requests,
                                                   Request(kind, thread_id, "done", 500))
    /\ UNCHANGED <<checkpoint, gvars>>

\* The graph's execution for request r ends (ainvoke returns or raises,
\* astream_events is exhausted or raises) and the handler records the
\* outcome: interrupted when the checkpoint has a next node, idle when the
\* run ended, error when the execution raised.  update_thread raises when
\* the thread was deleted meanwhile, also inside the except blocks, so
\* nothing is recorded then.
GraphReturns(r) ==
    /\ r \in 1..Len(requests)
    /\ requests[r].at = "in_graph"
    /\ LET thread_id == requests[r].thread_id
           gone == threads[thread_id] = NoThread
       IN \E outcome \in {"interrupted", "ended", "raise"} :
            /\ checkpoint' = IF outcome = "raise" THEN checkpoint
                             ELSE [checkpoint EXCEPT ![thread_id] = outcome]
            /\ threads' =
                 IF gone THEN threads
                 ELSE CASE outcome = "raise" ->
                             update_status(threads, thread_id, "error")
                        [] outcome = "interrupted" ->
                             update_result(threads, thread_id, "interrupted", TRUE, r)
                        [] OTHER ->
                             update_result(threads, thread_id, "idle", FALSE, r)
            /\ requests' = [requests EXCEPT ![r].at = "done",
                                            ![r].http = IF gone \/ outcome = "raise"
                                                        THEN 500 ELSE 200]
    /\ UNCHANGED <<graph, resumes, gvars>>

\* delete_thread that empties the store
delete_thread_all(ths, thread_id) == [t \in ThreadIds |-> NoThread]

\* ThreadStore.delete_thread for a stored thread: del self.threads[thread_id]
delete_thread(ths, thread_id) == [ths EXCEPT ![thread_id] = NoThread]

\* DELETE /threads/{id}
DeleteRequest(thread_id) ==
    /\ Len(requests) < MaxRequests
    /\ IF threads[thread_id] # NoThread
       THEN /\ threads' = delete_thread(threads, thread_id)
            /\ requests' = Append(requests, Request("delete", thread_id, "done", 200))
       ELSE /\ threads' = threads
            /\ requests' = Append(requests, Request("delete", thread_id, "done", 404))
    /\ UNCHANGED <<graph, checkpoint, resumes, gvars>>

(***************************************************************************)
(* Specifications                                                          *)
(***************************************************************************)
\* no stream is open
SInit ==
    /\ generator = "none"
    /\ sse = << >>
    /\ emitted_tool_calls = {}

NoRec == [ran |-> FALSE]

\* no log is under the walk
RInit0 ==
    /\ rlog = << >>
    /\ rinput = NoInput
    /\ rec = NoRec

\* a text is known by what it holds and by its length in characters
Text(id, len) == [id |-> id, len |-> len]

\* None
NoResult == Text("(None)", 0)

\* run_sub_agent has not returned
NoReturn == [kind |-> "(none)", text |-> NoResult]

\* no decision call made yet
NoRequest == [kind |-> "(none)", tool_name |-> "", tool_args |-> EmptyMap]

\* no sub-agent runs
UInit ==
    /\ sub_pc = "none"
    /\ iteration = 0
    /\ tools_by_name = {}
    /\ tool_request = NoRequest
    /\ tool_results = << >>
    /\ last_raw_result = NoResult
    /\ invocations = << >>
    /\ sub_return = NoReturn

Init == GInit /\ AInit /\ SInit /\ RInit0 /\ UInit /\ EInit

Next ==
    \/ (\E q \in Questions \cup {NoInput} : StartRun(q)) /\ UNCHANGED <<svars, rvars, uvars, evars>>
    \/ Supervisor /\ UNCHANGED <<svars, rvars, uvars, evars>>
    \/ HitlGate /\ UNCHANGED <<svars, rvars, uvars, evars>>
    \/ (\E response \in ResumeValues : ResumeRun(response)) /\ UNCHANGED <<svars, rvars, uvars, evars>>
    \/ Tools /\ UNCHANGED <<svars, rvars, uvars, evars>>

Spec == Init /\ [][Next]_vars

\* the API process; the graph's own state is not looked at
InitApi == AInit /\ GInit /\ mcp_tools = {} /\ SInit /\ RInit0 /\ UInit /\ EInit

NextApi ==
    \/ (\E t \in ThreadIds, s \in BOOLEAN : StartRequest(t, s)) /\ UNCHANGED <<svars, rvars, uvars, evars>>
    \/ (\E t \in ThreadIds, s \in BOOLEAN : ResumeRequest(t, s)) /\ UNCHANGED <<svars, rvars, uvars, evars>>
    \/ (\E r \in 1..MaxRequests : GraphReturns(r)) /\ UNCHANGED <<svars, rvars, uvars, evars>>
    \/ (\E t \in ThreadIds : DeleteRequest(t)) /\ UNCHANGED <<svars, rvars, uvars, evars>>

SpecApi == InitApi /\ [][NextApi]_vars

\* the API process with its scheduling: a graph execution that was begun
\* ends (it returns, suspends or raises), so the handler that awaits it
\* goes on; requests are a client's and may never come
SpecApiLive ==
    /\ SpecApi
    /\ \A r \in 1..MaxRequests :
          WF_vars(GraphReturns(r) /\ UNCHANGED <<svars, rvars, uvars, evars>>)

(***************************************************************************)
(* The API with its status operations (SpecStatus)                         *)
(*                                                                         *)
(* GET /threads/{id}, GET /threads/{id}/state and GET /threads beside the  *)
(* requests of SpecApi.  Each reads the store through ThreadStore's        *)
(* get_thread or list_threads and builds its response from what it read.   *)
(***************************************************************************)
\* get_thread that creates the thread it does not find
store_after_get_creating(ths, thread_id) ==
    IF ths[thread_id] = NoThread THEN create_thread(ths, thread_id) ELSE ths

\* the store after ThreadStore.get_thread: self.threads.get(thread_id)
\* writes nothing
store_after_get(ths, thread_id) == ths

\* the store after ThreadStore.list_threads: the list that is filtered and
\* sorted is a new one, list(self.threads.values())
store_after_list(ths) == ths

\* what ThreadStore.list_threads returns, as the set of the ids listed
list_threads(ths, status) ==
    {t \in ThreadIds : ths[t] # NoThread /\ (status = "" \/ ths[t].status = status)}

\* the status filters of GET /threads; "" is no filter
StatusFilters == {"", "interrupted", "idle", "busy", "error"}

\* GET /threads/{id} (kind "get_thread") and GET /threads/{id}/state (kind
\* "get_thread_state"): 404 for an unknown thread, else the stored fields
GetThreadRequest(thread_id, kind) ==
    /\ Len(requests) < MaxRequests
    /\ requests' = Append(requests,
                          Request(kind, thread_id, "done",
                                  IF threads[thread_id] = NoThread THEN 404 ELSE 200))
    /\ threads' = store_after_get(threads, thread_id)
    /\ UNCHANGED <<graph, checkpoint, resumes, gvars>>

\* GET /threads: the summaries of the stored threads of that status; the
\* request is recorded with the number of threads listed
ListThreadsRequest(status) ==
    /\ Len(requests) < MaxRequests
    /\ requests' = Append(requests,
                          Request("list_threads", status, "done",
                                  200 + Cardinality(list_threads(threads, status))))
    /\ threads' = store_after_list(threads)
    /\ UNCHANGED <<graph, checkpoint, resumes, gvars>>

NextStatus ==
    \/ (\E t \in ThreadIds, s \in BOOLEAN : StartRequest(t, s))
            /\ UNCHANGED <<svars, rvars, uvars, evars>>
    \/ (\E t \in ThreadIds, s \in BOOLEAN : ResumeRequest(t, s))
            /\ UNCHANGED <<svars, rvars, uvars, evars>>
    \/ (\E r \in 1..MaxRequests : GraphReturns(r)) /\ UNCHANGED <<svars, rvars, uvars, evars>>
    \/ (\E t \in ThreadIds : DeleteRequest(t)) /\ UNCHANGED <<svars, rvars, uvars, evars>>
    \/ (\E t \in ThreadIds, k \in {"get_thread", "get_thread_state"} :
            GetThreadRequest(t, k)) /\ UNCHANGED <<svars, rvars, uvars, evars>>
    \/ (\E f \in StatusFilters : ListThreadsRequest(f)) /\ UNCHANGED <<svars, rvars, uvars, evars>>

SpecStatus == InitApi /\ [][NextStatus]_vars

(***************************************************************************)
(* The turn machine with its scheduling (SpecLive)                         *)
(*                                                                         *)
(* Inside one graph.ainvoke the nodes run one after the other until the    *)
(* graph ends, suspends or raises, so the node steps are weakly fair;      *)
(* starts and resumes are requests of a client and may never come.  The    *)
(* graph is invoked with config = {"configurable": {"thread_id": ..}}: no  *)
(* recursion_limit is given and no node counts its passes, so the only     *)
(* bound on the supervisor -> hitl_gate -> tools -> supervisor loop is the *)
(* step limit of the graph library, which ends the run by raising          *)
(* GraphRecursionError.  MaxPasses stands for that limit here: a run that   *)
(* comes back from the tools node when no pass is left has selected a tool *)
(* on every pass, and is ended by the limit.  A request is made only while *)
(* a pass is left for it.                                                  *)
(***************************************************************************)
RecursionLimit ==
    /\ pc = "supervisor"
    /\ passes = MaxPasses
    /\ trace # << >> /\ Last(trace).ev = "exec"
    /\ pc' = "failed"
    /\ UNCHANGED <<mcp_tools, question, messages, pending, trace, passes, starts, run_from, avars>>

LStartRun ==
    /\ passes < MaxPasses
    /\ \E q \in Questions \cup {NoInput} : StartRun(q)
    /\ UNCHANGED <<svars, rvars, uvars, evars>>

LSupervisor == Supervisor /\ UNCHANGED <<svars, rvars, uvars, evars>>

LHitlGate == HitlGate /\ UNCHANGED <<svars, rvars, uvars, evars>>

LResumeRun ==
    /\ passes < MaxPasses
    /\ \E response \in ResumeValues : ResumeRun(response)
    /\ UNCHANGED <<svars, rvars, uvars, evars>>

LTools == Tools /\ UNCHANGED <<svars, rvars, uvars, evars>>

LRecursionLimit == RecursionLimit /\ UNCHANGED <<svars, rvars, uvars, evars>>

NextLive ==
    \/ LStartRun
    \/ LSupervisor
    \/ LHitlGate
    \/ LResumeRun
    \/ LTools
    \/ LRecursionLimit

SpecLive ==
    /\ Init
    /\ [][NextLive]_vars
    /\ WF_vars(LSupervisor)
    /\ WF_vars(LHitlGate)
    /\ WF_vars(LTools)
    /\ WF_vars(LRecursionLimit)

(***************************************************************************)
(* The event stream of a run (SpecStream)                                  *)
(*                                                                         *)
(* POST /runs/stream and POST /threads/{id}/resume/stream on one thread:   *)
(* the handler returns a StreamingResponse over the generator              *)
(* _run_graph_with_streaming, which yields "start", follows the graph's    *)
(* events while the nodes run, records the outcome in the thread store and *)
(* yields the terminal event.  DELETE /threads/{id} can come at any time.  *)
(* As in SpecLive a request is made only while a pass is left for it.      *)
(***************************************************************************)
StreamThread == "t1"

\* _sse_event(event_type, data); tool is "" for an event that is not about
\* a tool
SseEvent(event_type, tool) == [event |-> event_type, tool |-> tool]

\* call_key = (tool_name, args_key)
call_key(tc) == <<tc.name, tc.args>>

\* the tool calls of the messages of a node's output, in order
RECURSIVE tool_calls_of(_)
tool_calls_of(msgs) ==
    IF msgs = << >> THEN << >>
    ELSE Head(msgs).tool_calls \o tool_calls_of(Tail(msgs))

\* The handling of one on_chain_end event whose output holds these tool
\* calls: a tool_call event for each call whose key was not emitted yet
RECURSIVE on_chain_end(_, _)
on_chain_end(calls, emitted) ==
    IF calls = << >> THEN [events |-> << >>, emitted |-> emitted]
    ELSE LET tc == Head(calls)
         IN IF call_key(tc) \in emitted
            THEN on_chain_end(Tail(calls), emitted)
            ELSE LET rest == on_chain_end(Tail(calls), emitted \cup {call_key(tc)})
                 IN [events |-> << SseEvent("tool_call", tc.name) >> \o rest.events,
                     emitted |-> rest.emitted]

\* a node that suspends or raises ends with no output
no_chain_end(emitted) == [events |-> << >>, emitted |-> emitted]

\* create_run_stream: get or create the thread, mark it busy, get the graph
\* and return the StreamingResponse (500 and no stream when get_graph raises)
StreamOpenStart ==
    /\ generator \in {"none", "closed"}
    /\ passes < MaxPasses
    /\ pc \in {"END", "interrupted", "failed"}
    /\ starts < MaxStarts
    /\ LET t == StreamThread
           ths == update_status(IF threads[t] # NoThread THEN threads
                                ELSE create_thread(threads, t), t, "busy")
       IN /\ threads' = ths
          /\ \E g \in GetGraph :
                IF g = "ready"
                THEN graph' = "ready" /\ generator' = "opened_start"
                ELSE graph' = graph /\ generator' = generator
    /\ UNCHANGED <<sse, emitted_tool_calls, checkpoint, requests, resumes, gvars, rvars, uvars, evars>>

\* resume_thread_stream for an interrupted thread (404 or 400 and no stream
\* otherwise): mark it busy, get the graph, return the StreamingResponse
StreamOpenResume ==
    /\ generator \in {"none", "closed"}
    /\ passes < MaxPasses
    /\ threads[StreamThread] # NoThread
    /\ ~not_interrupted(threads[StreamThread])
    /\ threads' = update_status(threads, StreamThread, "busy")
    /\ \E g \in GetGraph :
          IF g = "ready"
          THEN graph' = "ready" /\ generator' = "opened_resume"
          ELSE graph' = graph /\ generator' = generator
    /\ UNCHANGED <<sse, emitted_tool_calls, checkpoint, requests, resumes, gvars, rvars, uvars, evars>>

\* the generator starts: it yields "start" and astream_events starts the
\* graph on the new input
StreamBeginStart ==
    /\ generator = "opened_start"
    /\ \E q \in Questions \cup {NoInput} : StartRun(q)
    /\ generator' = "running"
    /\ sse' = << SseEvent("start", "") >>
    /\ emitted_tool_calls' = {}
    /\ UNCHANGED <<rvars, uvars, evars>>

\* the generator starts on Command(resume=...): hitl_gate runs again; it
\* returns the whole state unless it suspends again or raises
StreamBeginResume ==
    /\ generator = "opened_resume"
    /\ \E response \in ResumeValues :
          /\ ResumeRun(response)
          /\ LET r == hitl_gate(messages, response)
                 ce == IF r.kind = "return"
                       THEN on_chain_end(tool_calls_of(r.messages), {})
                       ELSE no_chain_end({})
             IN /\ sse' = << SseEvent("start", "") >> \o ce.events
                /\ emitted_tool_calls' = ce.emitted
    /\ generator' = "running"
    /\ UNCHANGED <<rvars, uvars, evars>>

\* on_chain_end of the supervisor node: its output is the messages it added
StreamSupervisor ==
    /\ generator = "running"
    /\ Supervisor
    /\ LET output == SubSeq(messages', Len(messages) + 1, Len(messages'))
           ce == on_chain_end(tool_calls_of(output), emitted_tool_calls)
       IN /\ sse' = sse \o ce.events
          /\ emitted_tool_calls' = ce.emitted
    /\ UNCHANGED <<generator, rvars, uvars, evars>>

\* on_chain_end of hitl_gate: its output is the state it returns
StreamHitlGate ==
    /\ generator = "running"
    /\ HitlGate
    /\ LET r == hitl_gate(messages, NoResume)
           ce == IF r.kind = "return"
                 THEN on_chain_end(tool_calls_of(r.messages), emitted_tool_calls)
                 ELSE no_chain_end(emitted_tool_calls)
       IN /\ sse' = sse \o ce.events
          /\ emitted_tool_calls' = ce.emitted
    /\ UNCHANGED <<generator, rvars, uvars, evars>>

\* on_tool_end of the tool the tools node ran: a tool_result event (a tool
\* that is unknown, or that raised, does not end)
StreamTools ==
    /\ generator = "running"
    /\ Tools
    /\ sse' = IF Last(trace').out = "ok"
              THEN Append(sse, SseEvent("tool_result", Last(trace').name))
              ELSE sse
    /\ UNCHANGED <<generator, emitted_tool_calls, rvars, uvars, evars>>

\* the run is ended by the graph's step limit
StreamRecursionLimit ==
    /\ generator = "running"
    /\ RecursionLimit
    /\ UNCHANGED <<svars, rvars, uvars, evars>>

\* astream_events is exhausted (the graph ended or suspended; the graph's
\* own on_chain_end carries the final state) or raised.  The generator
\* records the outcome and yields the terminal event; update_thread raises
\* for a thread that was deleted, in the except block too, and the
\* generator then ends without yielding.
StreamEnd ==
    /\ generator = "running"
    /\ pc \in {"END", "interrupted", "failed"}
    /\ LET t == StreamThread
           gone == threads[t] = NoThread
           ce == IF pc = "failed" THEN no_chain_end(emitted_tool_calls)
                 ELSE on_chain_end(tool_calls_of(messages), emitted_tool_calls)
           terminal == CASE pc = "failed" -> "error"
                         [] pc = "interrupted" -> "interrupt"
                         [] OTHER -> "done"
       IN /\ emitted_tool_calls' = ce.emitted
          /\ sse' = IF gone THEN sse \o ce.events
                    ELSE sse \o ce.events \o << SseEvent(terminal, "") >>
          /\ threads' =
                IF gone THEN threads
                ELSE CASE pc = "failed" -> update_status(threads, t, "error")
                       [] pc = "interrupted" ->
                            update_result(threads, t, "interrupted", TRUE, Len(trace))
                       [] OTHER -> update_result(threads, t, "idle", FALSE, Len(trace))
    /\ generator' = "closed"
    /\ UNCHANGED <<graph, checkpoint, requests, resumes, gvars, rvars, uvars, evars>>

\* DELETE /threads/{id} for the stream's thread while it is stored
StreamDelete ==
    /\ threads[StreamThread] # NoThread
    /\ DeleteRequest(StreamThread)
    /\ UNCHANGED <<svars, rvars, uvars, evars>>

NextStream ==
    \/ StreamOpenStart
    \/ StreamOpenResume
    \/ StreamBeginStart
    \/ StreamBeginResume
    \/ StreamSupervisor
    \/ StreamHitlGate
    \/ StreamTools
    \/ StreamRecursionLimit
    \/ StreamEnd
    \/ StreamDelete

SpecStream == Init /\ [][NextStream]_vars

(***************************************************************************)
(* The supervisor's walk over the log (SpecRec)                            *)
(*                                                                         *)
(* What the supervisor derives from the log and the current input before   *)
(* it builds its prompt is a function of the two.  SpecRec builds a log    *)
(* message by message, or exchange by exchange, and then applies the walk. *)
(***************************************************************************)
\* messages of a log built message by message
MaxLog == 7

\* exchanges of a log built exchange by exchange
MaxExchanges == 11

\* conversation_history[-10:]
HistoryLimit == 10

\* previous_tool_results[-5:]
PreviousLimit == 5

\* s[-n:]
LastN(s, n) == IF Len(s) <= n THEN s ELSE SubSeq(s, Len(s) - n + 1, Len(s))

\* current_question_in_messages = None
NoQuestion == "(none)"

HasDone(m) ==
    m.type = "ai" /\ \E i \in 1..Len(m.tool_calls) : IsDone(m.tool_calls[i])

\* current_question_in_messages set by the first user message only
current_question_kept(msgs) ==
    IF \A i \in 1..Len(msgs) : msgs[i].type # "human" THEN NoQuestion
    ELSE msgs[CHOOSE i \in 1..Len(msgs) :
                 msgs[i].type = "human" /\ \A j \in 1..(i-1) : msgs[j].type # "human"].content

\* current_question_in_messages after the walk over msgs: set by a user
\* message, cleared by a Done call
RECURSIVE current_question_in_messages(_)
current_question_in_messages(msgs) ==
    IF msgs = << >> THEN NoQuestion
    ELSE LET m == Last(msgs)
         IN CASE m.type = "human" -> m.content
              [] HasDone(m) -> NoQuestion
              [] OTHER -> current_question_in_messages(ButLast(msgs))

\* IsFresh with the test lost: every tool result counts for the current turn
IsFresh_any(open_question, user_message) == TRUE

\* current_question_in_messages == user_message
IsFresh(open_question, user_message) == open_question = user_message

\* the positions of the tool messages, in order
ToolPositions(msgs) ==
    SelectSeq([i \in 1..Len(msgs) |-> i], LAMBDA i : msgs[i].type = "tool")

\* tool_results_for_current_turn: one line per tool message met while the
\* open question was the current input; given as the messages' positions
tool_results_for_current_turn(msgs, user_message) ==
    SelectSeq(ToolPositions(msgs),
              LAMBDA i : IsFresh(current_question_in_messages(SubSeq(msgs, 1, i - 1)),
                                 user_message))

\* previous_tool_results: the lines of the other tool messages
previous_tool_results(msgs, user_message) ==
    SelectSeq(ToolPositions(msgs),
              LAMBDA i : ~IsFresh(current_question_in_messages(SubSeq(msgs, 1, i - 1)),
                                  user_message))

\* the lines joined into history_text
history_text(msgs) == LastN(conversation_history(msgs), HistoryLimit)

\* the lines joined into previous_context
previous_context(msgs, user_message) ==
    LastN(previous_tool_results(msgs, user_message), PreviousLimit)

\* all the walk derives
Reconciled(msgs, user_message) ==
    [ran |-> TRUE,
     history_text |-> history_text(msgs),
     tool_results_for_current_turn |-> tool_results_for_current_turn(msgs, user_message),
     previous_context |-> previous_context(msgs, user_message),
     need_human_message |-> need_human_message(msgs, user_message)]

\* the texts of the user messages of a log built message by message
LogTexts == Questions \cup {"q3"}

\* the questions of a log built exchange by exchange, all different
ExchangeTexts ==
    <<"e01", "e02", "e03", "e04", "e05", "e06", "e07", "e08", "e09", "e10",
      "e11", "e12", "e13", "e14">>

DoneMessage == AIMessage("", ToolCalls("Done", [answer |-> "a1"]))

CallMessage == AIMessage("", ToolCalls("search_email_history", [query |-> "k1"]))

\* a log ends with a tool call that is still to be answered
CallOpen(msgs) ==
    msgs # << >> /\ Last(msgs).type = "ai" /\ Last(msgs).tool_calls # << >>
        /\ ~HasDone(Last(msgs))

\* the messages that can come next in a log: a user message (a new input
\* or the text of a response), the result of the call just made, a further
\* call or Done of the supervisor
NextMessages(msgs) ==
    {HumanMessage(q) : q \in LogTexts}
        \cup (IF CallOpen(msgs)
              THEN {ToolMessage("1. From: ..", "search_email_history")}
              ELSE {DoneMessage, CallMessage})

\* the log holds completed exchanges only, each a user message and its Done
ExchangesOnly(msgs) ==
    \A i \in 1..Len(msgs) :
        IF i % 2 = 1 THEN msgs[i].type = "human" ELSE HasDone(msgs[i])

InitRec ==
    /\ GInit /\ mcp_tools = {}
    /\ AInit
    /\ SInit
    /\ rlog = << >>
    /\ rinput \in LogTexts
    /\ rec = NoRec
    /\ UInit
    /\ EInit

LogAppend ==
    /\ rec = NoRec
    /\ Len(rlog) < MaxLog
    /\ \E m \in NextMessages(rlog) : rlog' = add_messages(rlog, << m >>)
    /\ UNCHANGED <<rinput, rec, gvars, avars, svars, uvars, evars>>

LogAppendExchange ==
    /\ rec = NoRec
    /\ ExchangesOnly(rlog) /\ Len(rlog) % 2 = 0
    /\ Len(rlog) < 2 * MaxExchanges
    /\ Len(rlog) < 2 * Len(ExchangeTexts)
    /\ rlog' = add_messages(rlog, << HumanMessage(ExchangeTexts[Len(rlog) \div 2 + 1]),
                                     DoneMessage >>)
    /\ UNCHANGED <<rinput, rec, gvars, avars, svars, uvars, evars>>

\* the supervisor's walk over the log for the current input
Reconcile ==
    /\ rec = NoRec
    /\ rec' = Reconciled(rlog, rinput)
    /\ UNCHANGED <<rlog, rinput, gvars, avars, svars, uvars, evars>>

NextRec ==
    \/ LogAppend
    \/ LogAppendExchange
    \/ Reconcile

SpecRec == InitRec /\ [][NextRec]_vars

(***************************************************************************)
(* The tools node and the sub-agents (SpecSub)                             *)
(*                                                                         *)
(* One execution of the tools node, on the call the first supervisor pass  *)
(* of a run selected (and, for an approval-gated call, a human accepted).  *)
(* A call of manage_calendar or manage_email runs run_sub_agent: a loop of *)
(* at most max_iterations passes, each a decision call followed by the     *)
(* invocation of the MCP tool it names.  The texts a tool returns are      *)
(* known by their length, so that the slices [:1500] and [:2000] cut them. *)
(***************************************************************************)
\* max_iterations: int = 5
MaxIterations == 5

\* last_raw_result[:2000]
RawLimit == 2000

\* last_raw_result[:1500]
ResultLimit == 1500

\* s[:n]
Truncate(s, n) == [s EXCEPT !.len = Min({s.len, n})]

\* Python truthiness of a text: None and "" are falsy
TruthyText(s) == s.len > 0

\* str(result) of an MCP tool that returned: empty, short or long
RawTexts == {Text("r0", 0), Text("r1", 1200), Text("r2", 2600)}

\* values of "answer" that are no strings, named by their JSON text:
\* tool_args is a dict of any values
NonStrAnswers == {"null"}

\* what the completion service can give the sub-agent: nothing that parses,
\* DONE with an answer that is a string, with one that is none, or
\* without an answer, or any tool name
SubOutputs(tools) ==
    {[kind |-> "fail", tool_name |-> "", tool_args |-> EmptyMap],
     [kind |-> "ok", tool_name |-> "DONE", tool_args |-> [answer |-> "a1"]],
     [kind |-> "ok", tool_name |-> "DONE", tool_args |-> [answer |-> "null"]],
     [kind |-> "ok", tool_name |-> "DONE", tool_args |-> EmptyMap],
     [kind |-> "ok", tool_name |-> "no-such-tool", tool_args |-> EmptyMap]}
        \cup {[kind |-> "ok", tool_name |-> n, tool_args |-> EmptyMap] : n \in tools}

\* what run_sub_agent returns: "answer" (the answer of DONE, a string),
\* "answer_value" (the answer of DONE, no string), "default"
\* ("Task completed."), "raw" (last_raw_result[:2000]), "error"
\* (f"Error: {str(e)}"), "results" (the joined tool_results) or "could_not"
\* ("Could not complete the request.")
Return(kind, text) == [kind |-> kind, text |-> text]

\* NotFoundEntry taken for the result of a tool
NotFoundEntry_returned(name) == [kind |-> "returned", tool |-> name, text |-> NoResult]

\* f"Error: Tool '{name}' not found. Available: ..."
NotFoundEntry(name) == [kind |-> "not_found", tool |-> name, text |-> NoResult]

\* f"Tool '{name}' returned: {last_raw_result[:1500]}"
ReturnedEntry(name, raw) ==
    [kind |-> "returned", tool |-> name, text |-> Truncate(raw, ResultLimit)]

\* ToolErrorEntry taken for the result of a tool
ToolErrorEntry_returned(name) == [kind |-> "returned", tool |-> name, text |-> NoResult]

\* f"Tool '{name}' error: {str(e)}"
ToolErrorEntry(name) == [kind |-> "error", tool |-> name, text |-> NoResult]

\* the call runs a sub-agent: manage_calendar or manage_email of the
\* catalog, with the argument the wrapper requires
IsSubAgentCall(tc) ==
    /\ tc.name \in {"manage_calendar", "manage_email"} \cap supervisor_tools(mcp_tools)
    /\ "request" \in DOMAIN tc.args

\* the state in which the tools node is entered for the call of the first
\* pass: the log holds the input and the supervisor's message
InitSub ==
    /\ mcp_tools \in McpLoads
    /\ question \in Questions
    /\ \E out \in LlmOutputs :
          /\ out.kind = "ok"
          /\ messages = add_messages(<< >>, supervisor(<< >>, question, out))
    /\ should_continue(messages) = "hitl_gate"
    /\ pc = "tools"
    /\ pending = {}
    /\ LET tc == Last(messages).tool_calls[1]
           selected == << Event("select", "", Last(messages).tool_calls, "ok", {}, 2) >>
       IN trace = IF tc.name \in HITL_TOOL_NAMES
                  THEN selected \o
                       << Event("interrupt", tc.name, tc.args, "", {}, 2),
                          Event("decision", "accept", PNone, "", {}, 2) >>
                  ELSE selected
    /\ passes = 1
    /\ starts = 1
    /\ run_from = 0
    /\ AInit /\ SInit /\ RInit0 /\ UInit /\ EInit

\* the tools node on a call that runs no sub-agent
ToolsDirect ==
    /\ sub_pc = "none"
    /\ pc = "tools"
    /\ ~IsSubAgentCall(Last(messages).tool_calls[1])
    /\ Tools
    /\ UNCHANGED <<svars, rvars, uvars, evars>>

\* the tools node calls manage_calendar or manage_email, which calls
\* run_sub_agent with the MCP tools of its kind
SubAgentBegin ==
    /\ sub_pc = "none"
    /\ pc = "tools"
    /\ LET tc == Last(messages).tool_calls[1]
       IN /\ IsSubAgentCall(tc)
          /\ tools_by_name' = IF tc.name = "manage_email"
                              THEN mcp_tools \cap EMAIL_MCP_TOOLS
                              ELSE mcp_tools \cap CALENDAR_MCP_TOOLS
    /\ sub_pc' = "select"
    /\ iteration' = 0
    /\ tool_request' = NoRequest
    /\ tool_results' = << >>
    /\ last_raw_result' = NoResult
    /\ invocations' = << >>
    /\ sub_return' = NoReturn
    /\ UNCHANGED <<gvars, avars, svars, rvars, evars>>

\* one pass of the loop: the decision call, then DONE, an unknown tool or
\* the invocation of the tool
SubAgentIteration ==
    /\ sub_pc = "select"
    /\ iteration < MaxIterations
    /\ iteration' = iteration + 1
    /\ \E out \in SubOutputs(tools_by_name) :
          /\ tool_request' = out
          /\ IF out.kind = "fail"
             THEN /\ sub_return' =
                        IF tool_results # << >> /\ TruthyText(last_raw_result)
                        THEN Return("raw", Truncate(last_raw_result, RawLimit))
                        ELSE Return("error", NoResult)
                  /\ sub_pc' = "returned"
                  /\ UNCHANGED <<tool_results, last_raw_result, invocations>>
             ELSE IF out.tool_name = "DONE"
             THEN /\ sub_return' =
                        IF "answer" \in DOMAIN out.tool_args
                        THEN IF out.tool_args["answer"] \in NonStrAnswers
                             THEN Return("answer_value", NoResult)
                             ELSE Return("answer", Text(out.tool_args["answer"], 2))
                        ELSE Return("default", NoResult)
                  /\ sub_pc' = "returned"
                  /\ UNCHANGED <<tool_results, last_raw_result, invocations>>
             ELSE IF out.tool_name \notin tools_by_name
             THEN /\ tool_results' = Append(tool_results, NotFoundEntry(out.tool_name))
                  /\ sub_pc' = "select"
                  /\ UNCHANGED <<last_raw_result, invocations, sub_return>>
             ELSE \/ \E raw \in RawTexts :
                       /\ invocations' = Append(invocations,
                                                [tool |-> out.tool_name, outcome |-> "ok"])
                       /\ last_raw_result' = raw
                       /\ tool_results' = Append(tool_results,
                                                 ReturnedEntry(out.tool_name, raw))
                       /\ sub_pc' = "select"
                       /\ UNCHANGED sub_return
                  \/ /\ invocations' = Append(invocations,
                                               [tool |-> out.tool_name, outcome |-> "raise"])
                     /\ tool_results' = Append(tool_results, ToolErrorEntry(out.tool_name))
                     /\ sub_pc' = "select"
                     /\ UNCHANGED <<last_raw_result, sub_return>>
    /\ UNCHANGED <<tools_by_name, gvars, avars, svars, rvars, evars>>

\* max_iterations passes were made
SubAgentExhausted ==
    /\ sub_pc = "select"
    /\ iteration = MaxIterations
    /\ sub_return' = IF TruthyText(last_raw_result)
                     THEN Return("raw", Truncate(last_raw_result, RawLimit))
                     ELSE IF tool_results # << >> THEN Return("results", NoResult)
                     ELSE Return("could_not", NoResult)
    /\ sub_pc' = "returned"
    /\ UNCHANGED <<iteration, tools_by_name, tool_request, tool_results,
                   last_raw_result, invocations, gvars, avars, svars, rvars, evars>>

\* the wrapper returns what run_sub_agent returned and the tools node
\* appends it as the result of the call
SubAgentReturn ==
    /\ sub_pc = "returned"
    /\ pc = "tools"
    /\ LET tc == Last(messages).tool_calls[1]
       IN /\ messages' = add_messages(messages,
                                      << ToolMessage("sub-agent answer", tc.name) >>)
          /\ trace' = Append(trace,
                             Event("exec", tc.name, tc.args, "ok",
                                   {invocations[i].tool : i \in 1..Len(invocations)},
                                   Len(messages')))
    /\ pc' = "supervisor"
    /\ sub_pc' = "done"
    /\ UNCHANGED <<mcp_tools, question, pending, passes, starts, run_from, avars, svars, rvars, evars,
                   iteration, tools_by_name, tool_request, tool_results,
                   last_raw_result, invocations, sub_return>>

NextSub ==
    \/ ToolsDirect
    \/ SubAgentBegin
    \/ SubAgentIteration
    \/ SubAgentExhausted
    \/ SubAgentReturn

SpecSub == InitSub /\ [][NextSub]_vars

(***************************************************************************)
(* The supervisor's argument repair (SpecFix)                              *)
(*                                                                         *)
(* The first supervisor pass of a run on a given output of the decision    *)
(* call, tool_request, a call of one of the three tools the supervisor     *)
(* repairs with any arguments; then the gate and the tools node on the     *)
(* call the pass selected.                                                 *)
(***************************************************************************)
RepairedTools == {"manage_calendar", "manage_email", "search_email_history"}

\* the argument mappings the completion service can give
ArgMaps ==
    {EmptyMap, [request |-> ""], [request |-> "r1"], [query |-> ""], [query |-> "k1"],
     [query |-> "k1", top_k |-> 3], [top_k |-> 3], [query |-> "", top_k |-> 3],
     [request |-> "r1", query |-> "k1"]}

ArgRequests ==
    {[kind |-> "ok", tool_name |-> n, tool_args |-> a] : n \in RepairedTools, a \in ArgMaps}

InitFix ==
    /\ mcp_tools \in McpLoads
    /\ question \in Questions
    /\ messages = << >>
    /\ pc = "supervisor"
    /\ pending = {}
    /\ trace = << >>
    /\ passes = 0
    /\ starts = 1
    /\ run_from = 0
    /\ AInit /\ SInit /\ RInit0 /\ EInit
    /\ tool_request \in ArgRequests
    /\ sub_pc = "none"
    /\ iteration = 0
    /\ tools_by_name = {}
    /\ tool_results = << >>
    /\ last_raw_result = NoResult
    /\ invocations = << >>
    /\ sub_return = NoReturn

\* the supervisor node on the output tool_request, then should_continue
FixSupervisor ==
    /\ pc = "supervisor"
    /\ passes = 0
    /\ passes' = 1
    /\ LET out == [kind |-> tool_request.kind, name |-> tool_request.tool_name,
                   args |-> tool_request.tool_args]
       IN /\ messages' = add_messages(messages, supervisor(messages, question, out))
          /\ pc' = should_continue(messages')
          /\ trace' = Append(trace, Event("select", Last(messages').content,
                                          Last(messages').tool_calls, out.kind, {},
                                          Len(messages')))
    /\ UNCHANGED <<mcp_tools, question, pending, starts, run_from, avars, svars, rvars, uvars, evars>>

FixHitlGate == HitlGate /\ UNCHANGED <<svars, rvars, uvars, evars>>

FixResumeRun ==
    (\E response \in ResumeValues : ResumeRun(response)) /\ UNCHANGED <<svars, rvars, uvars, evars>>

FixTools == Tools /\ UNCHANGED <<svars, rvars, uvars, evars>>

NextFix ==
    \/ FixSupervisor
    \/ FixHitlGate
    \/ FixResumeRun
    \/ FixTools

SpecFix == InitFix /\ [][NextFix]_vars

(***************************************************************************)
(* Properties of the turn machine (checked under Spec)                     *)
(***************************************************************************)
IsDecision(i, type) == trace[i].ev = "decision" /\ trace[i].name = type

\* the tool of an "exec" entry was really run (it exists and took its arguments)
Ran(i) == trace[i].ev = "exec" /\ trace[i].out \in {"ok", "error"}

SensitiveTools == {"send-mail", "create-calendar-event"}

\* C1: an approval-gated tool the supervisor selected is run only right
\* after its own approval request was raised and decided with accept or edit
C1_GatedRunsOnlyAfterApproval ==
    \A i \in 1..Len(trace) :
        (Ran(i) /\ trace[i].name \in HITL_TOOL_NAMES)
            => /\ i > 2
               /\ trace[i-1].ev = "decision"
               /\ trace[i-1].name \in {"accept", "edit"}
               /\ trace[i-2].ev = "interrupt"
               /\ trace[i-2].name = trace[i].name

\* C2: send-mail or create-calendar-event is invoked, by the supervisor's
\* own tool call or inside a sub-agent, only if a human accepted or edited
\* an approval request earlier in the run
C2_SensitiveOnlyAfterApproval ==
    \A i \in 1..Len(trace) :
        (trace[i].ev = "exec"
            /\ (trace[i].sub \cap SensitiveTools # {}
                  \/ (Ran(i) /\ trace[i].name \in SensitiveTools)))
            => \E j \in 1..(i-1) :
                   trace[j].ev = "decision" /\ trace[j].name \in {"accept", "edit"}

\* C3: at most one approval request is pending, in every state
C3_AtMostOnePending == Cardinality(pending) <= 1

\* C3 happens: a request is pending that is not the first one of the run
C3_Witness ==
    /\ Cardinality(pending) = 1
    /\ Cardinality({i \in 1..Len(trace) : trace[i].ev = "interrupt"}) >= 2

\* C4: a decision ignore leaves the length of the log as it was when the
\* request was raised, and the pending call is not executed (so no
\* tool-result message is appended for it)
C4_IgnoreKeepsLogAndSkipsCall ==
    \A i \in 1..Len(trace) :
        IsDecision(i, "ignore")
            => /\ trace[i].len = trace[i-1].len
               /\ (i < Len(trace) => trace[i+1].ev # "exec")

\* C5: right after a decision ignore the request is cleared and the
\* supervisor is the node that runs next
C5_IgnoreReturnsToSupervisor ==
    (trace # << >> /\ IsDecision(Len(trace), "ignore"))
        => (pc = "supervisor" /\ pending = {})

\* C6 as stated: after a decision edit with a mapping payload the executed
\* call's arguments are the payload
C6_EditExecutesPayload ==
    \A i \in 1..Len(trace) :
        (IsDecision(i, "edit") /\ trace[i].args.kind = "map"
            /\ i < Len(trace) /\ trace[i+1].ev = "exec")
            => trace[i+1].args = trace[i].args.val

\* C6 amended: after a decision edit with a mapping payload the executed
\* call's arguments are the payload's "args" entry, and the arguments of
\* the approval request when the payload has no such entry
C6_EditExecutesPayloadArgs ==
    \A i \in 1..Len(trace) :
        (IsDecision(i, "edit") /\ trace[i].args.kind = "map")
            => /\ (i = Len(trace) => pc = "tools")
               /\ (i < Len(trace) =>
                     /\ trace[i+1].ev = "exec"
                     /\ trace[i+1].name = trace[i-1].name
                     /\ trace[i+1].args =
                           IF "args" \in DOMAIN trace[i].args.val
                           THEN trace[i].args.val["args"]
                           ELSE trace[i-1].args)

\* C6 happens: a call was executed with the edited arguments, which differ
\* from the ones the approval request showed
C6_Witness ==
    \E i \in 2..(Len(trace) - 1) :
        /\ IsDecision(i, "edit") /\ trace[i].args.kind = "map"
        /\ "args" \in DOMAIN trace[i].args.val
        /\ Ran(i+1)
        /\ trace[i+1].args # trace[i-1].args

\* C7: right after a decision edit whose payload is not a mapping the run
\* has not failed and the pending call goes to execution with the
\* arguments of the approval request
C7_EditNonMappingIsAccept ==
    (trace # << >> /\ IsDecision(Len(trace), "edit")
        /\ Last(trace).args.kind # "map")
        => /\ pc = "tools"
           /\ Last(messages).tool_calls[1].args = trace[Len(trace)-1].args

\* C8: after a decision accept the pending call goes to the tools node with
\* the name and arguments of the approval request, is executed there once
\* (run unless the catalog lacks the tool), and the supervisor runs next
\* with the tool result as the last message
C8_AcceptExecutesOnce ==
    \A i \in 1..Len(trace) :
        IsDecision(i, "accept")
            => /\ i > 1 /\ trace[i-1].ev = "interrupt"
               /\ (i = Len(trace) =>
                     /\ pc = "tools"
                     /\ Last(messages).tool_calls =
                           << [name |-> trace[i-1].name, args |-> trace[i-1].args] >>)
               /\ (i < Len(trace) =>
                     /\ trace[i+1].ev = "exec"
                     /\ trace[i+1].name = trace[i-1].name
                     /\ trace[i+1].args = trace[i-1].args
                     /\ (trace[i+1].out = "unknown"
                           <=> trace[i+1].name \notin supervisor_tools(mcp_tools))
                     /\ messages[trace[i+1].len].type = "tool"
                     /\ messages[trace[i+1].len].name = trace[i-1].name)
               /\ (i + 1 = Len(trace) =>
                     pc = "supervisor" /\ Len(messages) = trace[i+1].len)
               /\ (i + 1 < Len(trace) => trace[i+2].ev = "select")

\* C8 happens: an accepted call was run and the supervisor ran after it
C8_Witness ==
    \E i \in 2..(Len(trace) - 2) :
        IsDecision(i, "accept") /\ Ran(i+1) /\ trace[i+2].ev = "select"

\* C9: a decision response appends exactly one message to the log, a user
\* message holding the text of the payload; the request is cleared, the
\* pending call is not executed and the supervisor runs next
C9_RespondAppendsUserMessage ==
    \A i \in 1..Len(trace) :
        IsDecision(i, "response")
            => /\ trace[i].len = trace[i-1].len + 1
               /\ messages[trace[i].len].type = "human"
               /\ messages[trace[i].len].content =
                     (IF trace[i].args.kind = "str" THEN trace[i].args.val ELSE "None")
               /\ (i = Len(trace) => pc = "supervisor" /\ pending = {})
               /\ (i < Len(trace) => trace[i+1].ev = "select")

\* C9 happens: a text response was applied and the supervisor ran after it
C9_Witness ==
    \E i \in 2..(Len(trace) - 1) :
        /\ IsDecision(i, "response")
        /\ trace[i].args = PStr("t1")
        /\ trace[i+1].ev = "select"

\* the user messages of the log that hold this text
UserMessagesWith(msgs, text) ==
    {i \in 1..Len(msgs) : msgs[i].type = "human" /\ msgs[i].content = text}

\* C20: a supervisor pass with an input appends the input as a user
\* message (before its own message) exactly when no user message of the log
\* holds that text, and else appends its own message only
C20_InputAppendedIffNew ==
    [][(passes' = passes + 1 /\ question # NoInput)
        => IF UserMessagesWith(messages, question) = {}
           THEN /\ Len(messages') = Len(messages) + 2
                /\ messages'[Len(messages) + 1].type = "human"
                /\ messages'[Len(messages) + 1].content = question
                /\ Last(messages').type = "ai"
           ELSE /\ Len(messages') = Len(messages) + 1
                /\ Last(messages').type = "ai"]_vars

\* C20 happens: two passes of one turn were made and the log holds the
\* input once
C20_Witness ==
    /\ starts = 1 /\ passes = 2 /\ question # NoInput
    /\ Cardinality(UserMessagesWith(messages, question)) = 1
    /\ Cardinality({i \in 1..Len(trace) : trace[i].ev = "select"}) = 2

\* a is a prefix of b
IsPrefix(a, b) == Len(a) <= Len(b) /\ SubSeq(b, 1, Len(a)) = a

\* this step applies a decision edit
EditStep ==
    /\ Len(trace') = Len(trace) + 1
    /\ Last(trace').ev = "decision" /\ Last(trace').name = "edit"

\* b is a but for the arguments of the tool calls of its last message
SameButLastArgs(a, b) ==
    /\ Len(b) = Len(a)
    /\ a # << >> =>
          /\ ButLast(b) = ButLast(a)
          /\ Last(b).type = "ai" /\ Last(a).type = "ai"
          /\ Last(b).content = Last(a).content /\ Last(b).id = Last(a).id
          /\ Len(Last(b).tool_calls) = Len(Last(a).tool_calls)
          /\ \A i \in 1..Len(Last(a).tool_calls) :
                Last(b).tool_calls[i].name = Last(a).tool_calls[i].name

SupervisorStep == passes' = passes + 1

\* the tool calls of a message all have their names in this set
Selects(m, names) ==
    m.type = "ai" /\ m.tool_calls # << >>
        /\ \A i \in 1..Len(m.tool_calls) : m.tool_calls[i].name \in names

\* the entry of the trace is a pass that selected a tool of this set
SelectEntry(i, names) ==
    /\ trace[i].ev = "select" /\ trace[i].args # << >>
    /\ \A k \in 1..Len(trace[i].args) : trace[i].args[k].name \in names

TerminalTools == {"Done", "Question"}

UngatedTools == supervisor_tools(mcp_tools) \ (HITL_TOOL_NAMES \cup TerminalTools)

\* C23: a tool of the catalog that is not approval-gated is run right after
\* the pass that selected it, with the selected arguments and with no
\* approval request and no suspension in between; its result is appended
\* as a tool message and the supervisor is the node that runs next
C23_UngatedRunsAtOnce ==
    \A i \in 1..Len(trace) :
        SelectEntry(i, UngatedTools)
            => /\ (i = Len(trace) =>
                     /\ pc \in {"hitl_gate", "tools"} /\ pending = {}
                     /\ Len(messages) = trace[i].len)
               /\ (i < Len(trace) =>
                     /\ Ran(i+1)
                     /\ << [name |-> trace[i+1].name, args |-> trace[i+1].args] >>
                           = trace[i].args
                     /\ trace[i+1].len = trace[i].len + 1
                     /\ messages[trace[i+1].len].type = "tool"
                     /\ messages[trace[i+1].len].name = trace[i+1].name)
               /\ (i + 1 = Len(trace) =>
                     /\ pc = "supervisor" /\ pending = {}
                     /\ Len(messages) = trace[i+1].len)
               /\ (i + 1 < Len(trace) => trace[i+2].ev = "select")

\* C23 happens: manage_calendar and search_email_history were selected and
\* run, and the supervisor ran after the first of them
C23_Witness ==
    \E i \in 1..(Len(trace) - 2), j \in 1..(Len(trace) - 1) :
        /\ SelectEntry(i, {"manage_calendar"}) /\ Ran(i+1)
        /\ trace[i+2].ev = "select"
        /\ SelectEntry(j, {"search_email_history"}) /\ Ran(j+1)

\* the entry of the trace is a pass whose decision call failed
FailedEntry(i) == trace[i].ev = "select" /\ trace[i].out = "fail"

\* C24: when the decision call fails right after a tool returned data, the
\* answer of the turn is the text the tool returned (the texts of this
\* model are shorter than 2000 characters, so nothing is cut from them),
\* not an error text
C24_FailureAfterToolAnswersRaw ==
    \A i \in 2..Len(trace) :
        (FailedEntry(i) /\ trace[i-1].ev = "exec" /\ trace[i-1].out = "ok")
            => /\ messages[trace[i].len].type = "ai"
               /\ messages[trace[i].len].content = messages[trace[i-1].len].content

\* no tool was executed since the input was put to the log
NoToolOutputYet(i) == i = 1 \/ trace[i-1].ev # "exec"

\* C25 as stated: when the decision call fails and no tool output exists,
\* the answer of the turn is "I could not complete the request"
C25_FailureAnswersCouldNot ==
    \A i \in 1..Len(trace) :
        (FailedEntry(i) /\ NoToolOutputYet(i))
            => messages[trace[i].len] =
                  [ErrorReply_could_not EXCEPT !.id = trace[i].len]

\* C25 amended: when the decision call fails and no tool output exists,
\* the answer of the turn is the error text of the failure, and the run
\* ends with it
C25_FailureAnswersError ==
    \A i \in 1..Len(trace) :
        (FailedEntry(i) /\ NoToolOutputYet(i))
            => /\ messages[trace[i].len].type = "ai"
               /\ messages[trace[i].len].content = "Error"
               /\ (i = Len(trace) => pc \in {"END", "supervisor"})
               /\ (i < Len(trace) => trace[i+1].ev = "select")

\* C25 happens: the first decision call of a run failed and the run ended
C25_Witness ==
    /\ Len(trace) = 1 /\ FailedEntry(1) /\ pc = "END"
    /\ Len(messages) = 2 /\ messages[1].type = "human"

\* C26: a supervisor pass whose decision call fails appends one assistant
\* message without tool calls, after the user message when no user message
\* of the log holds the input and alone otherwise; it leaves the rest of
\* the log as it is, and the run ends (it does not fail)
C26_FailureStaysInSupervisor ==
    [][(SupervisorStep /\ Last(trace').out = "fail")
        => /\ pc' = "END"
           /\ IsPrefix(messages, messages')
           /\ Last(messages').type = "ai" /\ Last(messages').tool_calls = << >>
           /\ IF UserMessagesWith(messages, question) = {}
              THEN /\ Len(messages') = Len(messages) + 2
                   /\ messages'[Len(messages) + 1].type = "human"
                   /\ messages'[Len(messages) + 1].content = question
              ELSE Len(messages') = Len(messages) + 1]_vars

\* C26 happens: a decision call failed in the second pass of a turn, after
\* a tool was run, and the run ended
C26_Witness ==
    /\ Len(trace) >= 3 /\ FailedEntry(Len(trace))
    /\ trace[Len(trace) - 1].ev = "exec"
    /\ starts = 1 /\ pc = "END"

(***************************************************************************)
(* Properties of the API (checked under SpecApi)                           *)
(***************************************************************************)
\* the requests that are executing the graph for a thread
Executing(thread_id) ==
    {r \in 1..Len(requests) :
        requests[r].thread_id = thread_id /\ requests[r].at = "in_graph"}

\* C10: at most one start or resume request executes the graph for a
\* thread id at any time
C10_OneExecutionPerThread ==
    \A t \in ThreadIds : Cardinality(Executing(t)) <= 1

\* the resume requests, of either handler
IsResume(req) == req.kind \in {"resume", "resume_stream"}

IsStart(req) == req.kind \in {"run", "run_stream"}

\* this step is the arrival of a request: its handler ran up to its first
\* suspension or to its end
Arrives == Len(requests') = Len(requests) + 1

\* C11: no two resume requests pass the status check on the same stored
\* interrupt of a thread (a decision is consumed once), and a resume request
\* that arrives while another one executes the graph on the interrupt the
\* thread still stores is rejected with 400
C11_OneResumePasses ==
    /\ [](\A x, y \in resumes :
             (x.thread_id = y.thread_id /\ x.state = y.state) => x = y)
    /\ [][(Arrives /\ IsResume(Last(requests'))
             /\ \E x \in resumes :
                   /\ x.thread_id = Last(requests').thread_id
                   /\ requests[x.request].at = "in_graph"
                   /\ threads[x.thread_id] # NoThread
                   /\ threads[x.thread_id].state = x.state)
            => (Last(requests').http = 400 /\ Last(requests').at = "done"
                  /\ resumes' = resumes)]_vars

\* C11 happens: a resume request was rejected with 400 while an earlier
\* resume request of the same thread executes the graph
C11_Witness ==
    \E r1, r2 \in 1..Len(requests) :
        /\ r1 < r2 /\ IsResume(requests[r1]) /\ IsResume(requests[r2])
        /\ requests[r1].thread_id = requests[r2].thread_id
        /\ requests[r1].at = "in_graph"
        /\ requests[r2].http = 400

\* C12: a resume request that arrives for a thread whose status is idle,
\* busy or error is answered with the error 400 and changes nothing of what
\* is stored for any thread, nor the graph's checkpoints
C12_ResumeRejectedUnlessInterrupted ==
    [][(Arrives /\ IsResume(Last(requests'))
         /\ threads[Last(requests').thread_id].status \in {"idle", "busy", "error"})
        => (Last(requests').http = 400 /\ Last(requests').at = "done"
              /\ threads' = threads /\ checkpoint' = checkpoint
              /\ resumes' = resumes)]_vars

\* C12 happens: resume requests were rejected with 400, one of them for a
\* thread that is busy
C12_Witness ==
    \E r \in 1..Len(requests) :
        /\ IsResume(requests[r]) /\ requests[r].http = 400
        /\ threads[requests[r].thread_id] # NoThread
        /\ threads[requests[r].thread_id].status = "busy"
        /\ \E r0 \in 1..(r-1) :
              requests[r0].thread_id = requests[r].thread_id
                  /\ requests[r0].at = "in_graph"

\* C13: a start request that arrives for a thread that is busy or
\* interrupted is rejected with a client error and leaves what is stored
\* for the thread unchanged
C13_StartRejectedMidFlight ==
    [][(Arrives /\ IsStart(Last(requests'))
         /\ threads[Last(requests').thread_id].status \in {"busy", "interrupted"})
        => (Last(requests').http \in 400..499 /\ threads' = threads)]_vars

(***************************************************************************)
(* Termination of a run (checked under SpecLive)                           *)
(***************************************************************************)
\* C14: a run never aborts, and whenever a node is to run the run later
\* reaches END (Concluded) or a suspension (AwaitingApproval)
C14_RunSettles ==
    /\ [](pc # "failed")
    /\ (pc \in {"supervisor", "hitl_gate", "tools"}) ~> (pc \in {"END", "interrupted"})

(***************************************************************************)
(* Properties of the event stream (checked under SpecStream)               *)
(***************************************************************************)
TerminalEvents == {"interrupt", "done", "error"}

\* how many of the first n events are of this type and about this tool
CountEvents(n, event_type, tool) ==
    Cardinality({i \in 1..n : sse[i] = SseEvent(event_type, tool)})

\* C15: a stream begins with its only start event, holds no terminal event
\* while the generator runs, and once the generator has ended it holds
\* exactly one terminal event (interrupt, done or error), as its last event
C15_StreamStartsAndEndsOnce ==
    /\ generator \in {"running", "closed"} =>
          /\ sse # << >> /\ sse[1].event = "start"
          /\ \A i \in 2..Len(sse) : sse[i].event # "start"
    /\ generator = "running" =>
          \A i \in 1..Len(sse) : sse[i].event \notin TerminalEvents
    /\ generator = "closed" =>
          /\ Last(sse).event \in TerminalEvents
          /\ \A i \in 1..(Len(sse) - 1) : sse[i].event \notin TerminalEvents

\* C16: in every stream each tool_result event has its own earlier
\* tool_call event for the same tool: up to any event, no tool has more
\* results than calls
C16_ResultsFollowCalls ==
    \A n \in 1..Len(sse) :
        sse[n].event = "tool_result"
            => CountEvents(n, "tool_result", sse[n].tool)
                  <= CountEvents(n, "tool_call", sse[n].tool)

(***************************************************************************)
(* Properties of the supervisor's walk (checked under SpecRec)             *)
(***************************************************************************)
IsHuman(m) == m.type = "human"

\* the exchanges a history shows: a user line followed by an assistant line
ExchangesIn(h) ==
    Cardinality({i \in 1..(Len(h) - 1) : h[i][1] = "User" /\ h[i+1][1] = "Assistant"})

MinOf(a, b) == IF a <= b THEN a ELSE b

\* C17: a tool result classified as fresh comes after a user message that
\* holds the current input and belongs to no completed exchange: no Done
\* follows it in the log
C17_FreshOnlyFromCurrentTurn ==
    rec.ran =>
        \A n \in 1..Len(rec.tool_results_for_current_turn) :
            LET i == rec.tool_results_for_current_turn[n]
            IN /\ \E j \in 1..(i - 1) : IsHuman(rlog[j]) /\ rlog[j].content = rinput
               /\ \A k \in (i + 1)..Len(rlog) : ~HasDone(rlog[k])

\* the log is two completed exchanges (a user message, any calls with their
\* results, Done) followed by a user message, the current input, whose text
\* is not in the log before
TwoExchangesThenNew(msgs, user_message) ==
    /\ Len(msgs) >= 5
    /\ IsHuman(Last(msgs)) /\ Last(msgs).content = user_message
    /\ LET P == ButLast(msgs)
           H == {i \in 1..Len(P) : IsHuman(P[i])}
           D == {i \in 1..Len(P) : HasDone(P[i])}
       IN /\ Cardinality(H) = 2 /\ Cardinality(D) = 2
          /\ 1 \in H /\ Len(P) \in D
          /\ \E h \in H : h > 1 /\ (h - 1) \in D
          /\ \A h \in H : P[h].content # user_message

C19_LastTenExchanges ==
    (rec.ran /\ ExchangesOnly(rlog) /\ Len(rlog) % 2 = 0)
        => ExchangesIn(rec.history_text) = MinOf(Len(rlog) \div 2, HistoryLimit)

(***************************************************************************)
(* Properties of the tools node and the sub-agents (checked under SpecSub) *)
(***************************************************************************)
\* this step is a pass of the sub-agent's loop
IterationStep == iteration' = iteration + 1

\* C27: a call of the tools node that names no tool of the catalog runs
\* nothing: an error text is appended as its tool message and the
\* supervisor is next.  A pass of a sub-agent whose decision names none of
\* its tools (and is not DONE) invokes nothing: an error entry is added to
\* tool_results and the loop goes on with its next pass
C27_UnknownToolIsRecorded ==
    /\ [][(pc = "tools" /\ sub_pc = "none"
             /\ Last(messages).tool_calls[1].name \notin supervisor_tools(mcp_tools))
            => /\ pc' = "supervisor"
               /\ IsPrefix(messages, messages') /\ Len(messages') = Len(messages) + 1
               /\ Last(messages').type = "tool"
               /\ Last(messages').name = Last(messages).tool_calls[1].name
               /\ Last(messages').content = "Error: not a valid tool"
               /\ Last(trace').ev = "exec" /\ Last(trace').out = "unknown"
               /\ invocations' = invocations /\ sub_pc' = "none"]_vars
    /\ [][(IterationStep /\ tool_request'.kind = "ok"
             /\ tool_request'.tool_name \notin tools_by_name \cup {"DONE"})
            => /\ invocations' = invocations
               /\ tool_results' =
                     Append(tool_results,
                            [kind |-> "not_found", tool |-> tool_request'.tool_name,
                             text |-> NoResult])
               /\ last_raw_result' = last_raw_result
               /\ sub_pc' = "select" /\ pc' = "tools"]_vars

\* C27 happens: a sub-agent's decision named an unknown tool, its next pass
\* invoked a tool that returned, and the sub-agent's answer went to the
\* tools node
C27_Witness ==
    /\ sub_pc = "done" /\ pc = "supervisor"
    /\ \E k \in 1..(Len(tool_results) - 1) :
          tool_results[k].kind = "not_found" /\ tool_results[k+1].kind = "returned"

\* the entries of tool_results that stand for an invocation
IsInvocationEntry(r) == r.kind \in {"returned", "error"}

\* C28: an invocation that raises adds an error entry for that tool to
\* tool_results, leaves the last raw result as it was, and the loop goes on
\* with its next pass.  The entries of tool_results match the invocations
\* one to one, a "returned" entry for an invocation that returned and an
\* error entry for one that raised; a raw result given as the answer is the
\* output of an invocation that returned
C28_ToolErrorIsRecorded ==
    /\ [][(Len(invocations') = Len(invocations) + 1
             /\ Last(invocations').outcome = "raise")
            => /\ tool_results' =
                     Append(tool_results,
                            [kind |-> "error", tool |-> Last(invocations').tool,
                             text |-> NoResult])
               /\ last_raw_result' = last_raw_result
               /\ sub_pc' = "select" /\ pc' = "tools"]_vars
    /\ [](LET r == SelectSeq(tool_results, IsInvocationEntry)
          IN /\ Len(r) = Len(invocations)
             /\ \A k \in 1..Len(r) :
                   /\ r[k].tool = invocations[k].tool
                   /\ r[k].kind = "returned" <=> invocations[k].outcome = "ok")
    /\ [](sub_return.kind = "raw"
            => \E k \in 1..Len(invocations) : invocations[k].outcome = "ok")

\* C28 happens: a tool raised, a later pass invoked a tool again, and the
\* sub-agent's answer went to the tools node
C28_Witness ==
    /\ sub_pc = "done" /\ pc = "supervisor"
    /\ \E k \in 1..(Len(invocations) - 1) : invocations[k].outcome = "raise"

(***************************************************************************)
(* Properties of the argument repair (checked under SpecFix)               *)
(***************************************************************************)
\* the argument the supervisor repairs for a tool
RequiredArg(name) == IF name = "search_email_history" THEN "query" ELSE "request"

\* the argument was given, and is not empty
Supplied(args, k) == k \in DOMAIN args /\ args[k] # ""

\* C29: the call the supervisor selects for manage_calendar, manage_email
\* or search_email_history holds the tool's request (query) argument, not
\* empty: the one the decision call gave, with all arguments as they were
\* given, or else the current input, with the other given arguments kept;
\* and the execution of the selected call is never refused for its
\* arguments
C29_ArgumentsRepaired ==
    /\ trace # << >> =>
          LET tc == trace[1].args[1]
              raw == tool_request.tool_args
              k == RequiredArg(tc.name)
          IN /\ tc.name = tool_request.tool_name
             /\ Supplied(tc.args, k)
             /\ Supplied(raw, k) => tc.args = raw
             /\ ~Supplied(raw, k) => tc.args[k] = question
             /\ \A x \in DOMAIN raw \ {k} : x \in DOMAIN tc.args /\ tc.args[x] = raw[x]
    /\ \A i \in 1..Len(trace) : trace[i].ev = "exec" => trace[i].out # "invalid"

\* C29 happens: search_email_history came with no arguments and was run
\* with the input as its query
C29_Witness ==
    /\ tool_request.tool_name = "search_email_history"
    /\ tool_request.tool_args = EmptyMap
    /\ Len(trace) = 2 /\ Ran(2)
    /\ trace[2].args["query"] = question

(***************************************************************************)
(* Properties of the status operations (checked under SpecStatus)          *)
(***************************************************************************)
StatusKinds == {"get_thread", "get_thread_state", "list_threads"}

\* C30: a step that is a status operation (GET thread, GET thread state,
\* list threads) leaves the store, the graph and the checkpoints as they
\* were: whatever is stored for a thread is what the last start, resume or
\* delete left there
C30_StatusReadsOnly ==
    [][(Arrives /\ Last(requests').kind \in StatusKinds)
        => (threads' = threads /\ checkpoint' = checkpoint /\ graph' = graph
              /\ resumes' = resumes /\ Last(requests').at = "done")]_vars

\* C30 happens: a thread that is interrupted was read twice, its status
\* and its state, after the request that started its run
C30_Witness ==
    \E r0, r1, r2 \in 1..Len(requests) :
        /\ r0 < r1 /\ r1 < r2
        /\ IsStart(requests[r0]) /\ requests[r0].at = "done"
        /\ requests[r1].kind = "get_thread" /\ requests[r2].kind = "get_thread_state"
        /\ requests[r1].thread_id = requests[r0].thread_id
        /\ requests[r2].thread_id = requests[r0].thread_id
        /\ requests[r1].http = 200 /\ requests[r2].http = 200
        /\ threads[requests[r0].thread_id] # NoThread
        /\ threads[requests[r0].thread_id].status = "interrupted"

(***************************************************************************)
(* Properties of unknown threads (checked under SpecStatus)                *)
(***************************************************************************)
UnknownKinds == {"get_thread", "get_thread_state", "resume", "resume_stream", "delete"}

\* C31: a get, a resume or a delete for a thread id the store does not hold
\* is answered 404 and leaves the store as it was; a thread appears in the
\* store only in the step of a start request for it, and disappears only
\* in the step of a delete request for it
C31_UnknownThreadNotFound ==
    [][/\ (Arrives /\ Last(requests').kind \in UnknownKinds
              /\ threads[Last(requests').thread_id] = NoThread)
          => (Last(requests').http = 404 /\ Last(requests').at = "done"
                /\ threads' = threads)
       /\ \A t \in ThreadIds :
            /\ (threads[t] = NoThread /\ threads'[t] # NoThread)
                 => (Arrives /\ IsStart(Last(requests'))
                       /\ Last(requests').thread_id = t)
            /\ (threads[t] # NoThread /\ threads'[t] = NoThread)
                 => (Arrives /\ Last(requests').kind = "delete"
                       /\ Last(requests').thread_id = t)]_vars

\* C31 happens: while one thread is stored, a resume and a delete for
\* another id were both answered 404 and that id is still unknown
C31_Witness ==
    \E r1, r2 \in 1..Len(requests) : \E t \in ThreadIds :
        /\ IsResume(requests[r1]) /\ requests[r1].http = 404
        /\ requests[r2].kind = "delete" /\ requests[r2].http = 404
        /\ requests[r1].thread_id = requests[r2].thread_id
        /\ threads[requests[r1].thread_id] = NoThread
        /\ t # requests[r1].thread_id /\ threads[t] # NoThread

(***************************************************************************)
(* Properties of the stored interrupt (checked under SpecApi)              *)
(***************************************************************************)
\* C37: a stored thread whose status is idle has no interrupt stored, and
\* a thread with an interrupt stored is interrupted, busy or error
C37_IdleHasNoInterrupt ==
    \A t \in ThreadIds :
        threads[t] # NoThread =>
            /\ threads[t].status = "idle" => threads[t].interrupt = FALSE
            /\ threads[t].interrupt = TRUE
                 => threads[t].status \in {"interrupted", "busy", "error"}

\* C37 happens: a thread that was interrupted has been resumed, its run
\* ended, and it is idle
C37_Witness ==
    \E rs \in resumes :
        /\ requests[rs.request].at = "done" /\ requests[rs.request].http = 200
        /\ threads[rs.thread_id] # NoThread
        /\ threads[rs.thread_id].status = "idle"
        /\ threads[rs.thread_id].state = rs.request

(***************************************************************************)
(* Properties of the sub-agent loop's end (checked under SpecSub)          *)
(***************************************************************************)
\* the returns of run_sub_agent that are strings
StringReturns == {"answer", "default", "raw", "error", "results", "could_not"}

\* C33: run_sub_agent makes at most max_iterations decision calls and at
\* most as many tool invocations, after max_iterations passes it returns,
\* and what it returns is a string
C33_ReturnsStringWithinLimit ==
    /\ iteration <= MaxIterations
    /\ Len(invocations) <= MaxIterations
    /\ (sub_pc = "select" /\ iteration = MaxIterations) => ENABLED SubAgentExhausted
    /\ sub_pc \in {"returned", "done"} => sub_return.kind \in StringReturns

(***************************************************************************)
(* Properties of the resume values (checked under Spec)                    *)
(***************************************************************************)
\* C35: after a decision ignore or response the pending call is not
\* executed; after every other decision the pending call goes to the tools
\* node and is executed, with the arguments of the approval request unless
\* the decision is an edit with a non-empty payload
C35_OnlyIgnoreAndResponsePrevent ==
    \A i \in 2..Len(trace) :
        trace[i].ev = "decision" =>
            IF trace[i].name \in {"ignore", "response"}
            THEN /\ (i = Len(trace) => pc # "tools")
                 /\ (i < Len(trace) => trace[i+1].ev # "exec")
            ELSE /\ (i = Len(trace) => pc = "tools")
                 /\ (i < Len(trace) =>
                       /\ trace[i+1].ev = "exec"
                       /\ trace[i+1].name = trace[i-1].name
                       /\ (trace[i+1].args = trace[i-1].args
                             \/ (trace[i].name = "edit" /\ Truthy(trace[i].args))))

(***************************************************************************)
(* Properties of the turn after a response (checked under Spec)            *)
(***************************************************************************)
\* entry i of the trace is a decision response of the current run
ResponseInRun(i) == i > run_from /\ IsDecision(i, "response")

\* the positions of the tool messages the supervisor would take for fresh
\* results on the log as it is
FreshNow == tool_results_for_current_turn(messages, question)

InSeq(x, s) == \E k \in 1..Len(s) : s[k] = x

\* the tool messages after position p0 with no user message in between
ToolsRightAfter(p0) ==
    {p \in (p0+1)..Len(messages) :
        /\ messages[p].type = "tool"
        /\ \A k \in (p0+1)..p : messages[k].type # "human"}

C34_BusySettles ==
    \A t \in ThreadIds :
        (threads[t].status = "busy")
            ~> (threads[t] = NoThread
                  \/ threads[t].status \in {"interrupted", "idle", "error"})

(***************************************************************************)
(* The date range of a calendar request (SpecDates)                        *)
(*                                                                         *)
(* One call of get_date_range_for_query on a request and the date of the   *)
(* day.  Days are numbered from Monday 2024-12-02 (day 0), so that the     *)
(* weeks, the end of a month and the end of a year are within the days     *)
(* drawn.  A request is known by its words; a keyword is in it when the    *)
(* keyword's words follow one another in it.                               *)
(***************************************************************************)
\* the last day drawn for datetime.date.today()
MaxDay == 34

\* today.weekday(): Monday is 0
weekday(d) == d % 7

\* date.isoformat(): the year, month and day of the day numbered d
isoformat(d) ==
    IF d < 30 THEN [year |-> 2024, month |-> 12, day |-> d + 2]
    ELSE IF d < 61 THEN [year |-> 2025, month |-> 1, day |-> d - 29]
    ELSE [year |-> 2025, month |-> 2, day |-> d - 60]

\* today.replace(day=1)
first_of_month(d) == IF d < 30 THEN -1 ELSE IF d < 61 THEN 30 ELSE 61

\* the first day of the month after today's: in December the year is
\* raised and the month set to 1, else the month is raised
first_of_next_month(d) == IF d < 30 THEN 30 ELSE IF d < 61 THEN 61 ELSE 89

\* str.lower() on the words of a request
lower(q) ==
    [i \in 1..Len(q) |->
        CASE q[i] = "Next" -> "next"
          [] q[i] = "Week" -> "week"
          [] q[i] = "Today" -> "today"
          [] OTHER -> q[i]]

\* keyword in query_lower
Contains(q, keyword) ==
    \E i \in 1..Len(q) :
        /\ i + Len(keyword) - 1 <= Len(q)
        /\ SubSeq(q, i, i + Len(keyword) - 1) = keyword

\* the requests drawn
DateQueries ==
    {<<"meetings", "next", "week">>, <<"Next", "Week">>, <<"this", "week">>,
     <<"week">>, <<"what", "is", "on", "Today">>, <<"tomorrow">>,
     <<"today", "or", "next", "week">>, <<"this", "month">>, <<"next", "month">>,
     <<"my", "events">>}

\* get_date_range_for_query(query) on the day today
get_date_range_for_query(query, today) ==
    LET query_lower == lower(query)
        monday == today - weekday(today)
        range ==
            IF Contains(query_lower, <<"today">>)
            THEN <<today, today + 1>>
            ELSE IF Contains(query_lower, <<"tomorrow">>)
            THEN <<today + 1, today + 2>>
            ELSE IF Contains(query_lower, <<"this", "week">>)
                      \/ Contains(query_lower, <<"week">>)
            THEN <<monday, monday + 7>>
            ELSE IF Contains(query_lower, <<"next", "week">>)
            THEN <<monday + 7, monday + 7 + 7>>
            ELSE IF Contains(query_lower, <<"this", "month">>)
                      \/ Contains(query_lower, <<"month">>)
            THEN <<first_of_month(today), first_of_next_month(today)>>
            ELSE <<today, today + 7>>
    IN [start_str |-> [date |-> isoformat(range[1]), time |-> "00:00:00"],
        end_str |-> [date |-> isoformat(range[2]), time |-> "23:59:59"]]

NoRange == [start_str |-> "", end_str |-> ""]

InitDates ==
    /\ GInit /\ mcp_tools = {} /\ AInit /\ SInit /\ RInit0 /\ UInit
    /\ foundry = NotRun /\ callers = NotRun /\ bulk = NotRun /\ search = NotRun
    /\ dates \in [today : 0..MaxDay, query : DateQueries, at : {"called"},
                  range : {NoRange}]

\* calendar_sub_agent calls get_date_range_for_query(request)
GetDateRange ==
    /\ dates.at = "called"
    /\ dates' = [dates EXCEPT !.at = "returned",
                              !.range = get_date_range_for_query(dates.query, dates.today)]
    /\ UNCHANGED <<gvars, avars, svars, rvars, uvars, foundry, callers, bulk, search>>

NextDates == GetDateRange

SpecDates == InitDates /\ [][NextDates]_vars

(***************************************************************************)
(* Properties of the date range (checked under SpecDates)                  *)
(***************************************************************************)
\* C38: for a request that contains "next week" the range returned starts
\* on the Monday of the week after today's, and for a request that
\* contains "this week" on the Monday of today's week
C38_NextWeekStartsNextMonday ==
    dates.at = "returned" =>
        LET q == lower(dates.query)
            monday == dates.today - weekday(dates.today)
        IN /\ Contains(q, <<"next", "week">>)
                => dates.range.start_str.date = isoformat(monday + 7)
           /\ Contains(q, <<"this", "week">>)
                => dates.range.start_str.date = isoformat(monday)

(***************************************************************************)
(* The bulk import of emails (SpecBulk)                                    *)
(*                                                                         *)
(* One call of bulk_import_emails on a list of emails.  An email is known  *)
(* by what the two checks of the loop find for it: the query on the        *)
(* vector store's table (a row, no row, or an exception) and the test for  *)
(* its file.  The batches are imported one after the other; the indexing   *)
(* of a batch succeeds or raises.                                          *)
(***************************************************************************)
\* the longest list imported
MaxEmails == 3

\* batch_size: int = 50
DefaultBatchSize == 50

BatchSizes == {1, 2, DefaultBatchSize}

\* what the checks find for an email
EmailKinds == [check : {"found", "missing", "raise"}, file : BOOLEAN]

EmailLists == UNION {[1..n -> EmailKinds] : n \in 0..MaxEmails}

\* vector_exists: asked only when there is a vector store and a connection
\* pool; an exception of the query leaves it False
vector_exists(email, vector_store, connection_pool) ==
    vector_store /\ connection_pool /\ email.check = "found"

\* Classify with the emails that only miss their file left out
Classify_no_restore(email, vector_store, connection_pool) ==
    IF vector_exists(email, vector_store, connection_pool)
    THEN IF email.file THEN "skipped" ELSE "none"
    ELSE "new_emails"

\* what the loop does with an email: count it as skipped, put it on
\* file_only_emails or put it on new_emails
Classify(email, vector_store, connection_pool) ==
    IF vector_exists(email, vector_store, connection_pool) /\ email.file
    THEN "skipped"
    ELSE IF vector_exists(email, vector_store, connection_pool) /\ ~email.file
    THEN "file_only_emails"
    ELSE "new_emails"

\* how many emails of the batch are classified as class
CountOf(batch, class, vector_store, connection_pool) ==
    Cardinality({k \in 1..Len(batch) :
                    Classify(batch[k], vector_store, connection_pool) = class})

\* stats after one batch; indexed tells whether _batch_index_vectors
\* returned (it is called only for new emails with a vector store)
import_batch(stats, batch, vector_store, connection_pool, indexed) ==
    LET skipped == CountOf(batch, "skipped", vector_store, connection_pool)
        file_only == CountOf(batch, "file_only_emails", vector_store, connection_pool)
        new == CountOf(batch, "new_emails", vector_store, connection_pool)
    IN [stored |-> stats.stored + file_only
                     + (IF new > 0 /\ (~vector_store \/ indexed) THEN new ELSE 0),
        skipped |-> stats.skipped + skipped,
        failed |-> stats.failed
                     + (IF new > 0 /\ vector_store /\ ~indexed THEN new ELSE 0)]

InitBulk ==
    /\ GInit /\ mcp_tools = {} /\ AInit /\ SInit /\ RInit0 /\ UInit
    /\ foundry = NotRun /\ callers = NotRun /\ dates = NotRun /\ search = NotRun
    /\ bulk \in [email_list : EmailLists, batch_size : BatchSizes,
                 vector_store : BOOLEAN, connection_pool : BOOLEAN,
                 i : {0}, stats : {[stored |-> 0, skipped |-> 0, failed |-> 0]},
                 at : {"loop"}]

\* one pass of "for i in range(0, total, batch_size)"
BulkBatch ==
    /\ bulk.at = "loop"
    /\ bulk.i < Len(bulk.email_list)
    /\ LET batch == SubSeq(bulk.email_list, bulk.i + 1,
                           Min({bulk.i + bulk.batch_size, Len(bulk.email_list)}))
           has_new == CountOf(batch, "new_emails", bulk.vector_store,
                              bulk.connection_pool) > 0
       IN \E indexed \in IF has_new /\ bulk.vector_store THEN BOOLEAN ELSE {TRUE} :
            bulk' = [bulk EXCEPT !.i = bulk.i + bulk.batch_size,
                                 !.stats = import_batch(bulk.stats, batch,
                                                        bulk.vector_store,
                                                        bulk.connection_pool, indexed)]
    /\ UNCHANGED <<gvars, avars, svars, rvars, uvars, foundry, callers, dates, search>>

\* the range is exhausted: return stats
BulkReturn ==
    /\ bulk.at = "loop"
    /\ bulk.i >= Len(bulk.email_list)
    /\ bulk' = [bulk EXCEPT !.at = "returned"]
    /\ UNCHANGED <<gvars, avars, svars, rvars, uvars, foundry, callers, dates, search>>

NextBulk ==
    \/ BulkBatch
    \/ BulkReturn

SpecBulk == InitBulk /\ [][NextBulk]_vars

(***************************************************************************)
(* Properties of the bulk import (checked under SpecBulk)                  *)
(***************************************************************************)
\* C39: after every batch stored + skipped + failed is the number of
\* emails of the batches imported so far, and when bulk_import_emails has
\* returned it is the number of emails of the list
C39_CountersAddUp ==
    LET sum == bulk.stats.stored + bulk.stats.skipped + bulk.stats.failed
    IN /\ sum = Min({bulk.i, Len(bulk.email_list)})
       /\ bulk.at = "returned" => sum = Len(bulk.email_list)

\* C39 happens: an import over more than one batch returned with emails
\* stored, skipped and failed
C39_Witness ==
    /\ bulk.at = "returned"
    /\ bulk.batch_size < Len(bulk.email_list)
    /\ bulk.stats.stored > 0 /\ bulk.stats.skipped > 0 /\ bulk.stats.failed > 0

(***************************************************************************)
(* The text search over the stored emails (SpecSearch)                     *)
(*                                                                         *)
(* One call of search_email_history that reaches _text_search (no vector   *)
(* store, or its search raised).  A stored file is known by the words of   *)
(* the query vocabulary its text holds, or cannot be read; the files come  *)
(* in the order glob gives them.                                           *)
(***************************************************************************)
\* the most files stored
MaxFiles == 3

\* top_k: int = 5
DefaultTopK == 5

\* top_k is a number of results
TopKs == {0, 1, 2, DefaultTopK}

SearchWords == {"a", "b"}

\* query.lower().split()
QueryWords == {<< >>, <<"a">>, <<"a", "b">>, <<"a", "a">>}

\* a stored file: the words its text holds, and whether json.load reads it
FileKinds ==
    {[words |-> w, readable |-> TRUE] : w \in SUBSET SearchWords}
        \cup {[words |-> {}, readable |-> FALSE]}

FileLists == UNION {[1..n -> FileKinds] : n \in 0..MaxFiles}

\* sum(1 for word in query_words if word in text_lower)
score(file, query_words) ==
    Cardinality({k \in 1..Len(query_words) : query_words[k] \in file.words})

\* results.sort left out
SortByScore_none(s) == s

RECURSIVE InsertByScore(_, _)
InsertByScore(x, s) ==
    IF s = << >> THEN << x >>
    ELSE IF Head(s).score <= x.score THEN << x >> \o s
    ELSE << Head(s) >> \o InsertByScore(x, Tail(s))

\* results.sort(key=lambda x: x['score'], reverse=True): the highest score
\* first, entries of one score in the order they had
RECURSIVE SortByScore(_)
SortByScore(s) ==
    IF s = << >> THEN << >> ELSE InsertByScore(Head(s), SortByScore(Tail(s)))

\* results[:top_k]
Take(s, n) == SubSeq(s, 1, Min({n, Len(s)}))

\* the entries appended in the loop over the files: one for each file that
\* was read and has a score above 0
Matches(files, query_words) ==
    LET entry(k) == [file |-> k, score |-> score(files[k], query_words)]
    IN SelectSeq([k \in 1..Len(files) |-> entry(k)],
                 LAMBDA r : files[r.file].readable /\ r.score > 0)

\* _text_search(query, top_k)
text_search(files, local, query_words, top_k) ==
    IF local THEN Take(SortByScore(Matches(files, query_words)), top_k)
    ELSE << >>

\* what search_email_history returns for the results
search_report(results) ==
    IF results = << >> THEN "No emails found." ELSE "1. From: ..."

InitSearch ==
    /\ GInit /\ mcp_tools = {} /\ AInit /\ SInit /\ RInit0 /\ UInit
    /\ foundry = NotRun /\ callers = NotRun /\ dates = NotRun /\ bulk = NotRun
    /\ search \in [files : FileLists, local : BOOLEAN, query_words : QueryWords,
                   top_k : TopKs, at : {"called"}, results : {<< >>}, report : {""}]

\* email_storage.search falls back to _text_search
TextSearch ==
    /\ search.at = "called"
    /\ search' = [search EXCEPT !.at = "searched",
                                !.results = text_search(search.files, search.local,
                                                        search.query_words, search.top_k)]
    /\ UNCHANGED <<gvars, avars, svars, rvars, uvars, foundry, callers, dates, bulk>>

\* search_email_history returns its text
SearchReport ==
    /\ search.at = "searched"
    /\ search' = [search EXCEPT !.at = "reported",
                                !.report = search_report(search.results)]
    /\ UNCHANGED <<gvars, avars, svars, rvars, uvars, foundry, callers, dates, bulk>>

NextSearch ==
    \/ TextSearch
    \/ SearchReport

SpecSearch == InitSearch /\ [][NextSearch]_vars

(***************************************************************************)
(* Properties of the text search (checked under SpecSearch)                *)
(***************************************************************************)
\* C40: the text search returns at most top_k results, each a stored email
\* with its score, which is 1 or more, the scores never rising along the
\* sequence; it returns the empty sequence when no email that can be read
\* matches, and search_email_history then answers "No emails found."
C40_TextSearchResults ==
    search.at \in {"searched", "reported"} =>
        LET r == search.results
        IN /\ Len(r) <= search.top_k
           /\ \A k \in 1..Len(r) :
                 /\ r[k].file \in 1..Len(search.files)
                 /\ r[k].score = score(search.files[r[k].file], search.query_words)
                 /\ r[k].score >= 1
           /\ \A k \in 1..(Len(r) - 1) : r[k].score >= r[k+1].score
           /\ (\A k \in 1..Len(search.files) :
                   ~search.files[k].readable
                     \/ score(search.files[k], search.query_words) = 0)
                 => r = << >>
           /\ (search.at = "reported" /\ r = << >>)
                 => search.report = "No emails found."
           /\ (search.at = "reported" /\ r # << >>)
                 => search.report # "No emails found."

\* C40 happens: more emails matched than top_k, and the results returned
\* are top_k emails of different scores
C40_Witness ==
    /\ search.at = "reported"
    /\ Len(search.results) = search.top_k
    /\ Len(Matches(search.files, search.query_words)) > search.top_k
    /\ \E k \in 1..(Len(search.results) - 1) :
          search.results[k].score > search.results[k+1].score

(***************************************************************************)
(* The Foundry Local service (SpecFoundry)                                 *)
(*                                                                         *)
(* Threads that call get_foundry_llm(): FoundryService() (__new__, then    *)
(* __init__) and get_llm(), which calls _ensure_initialized().  The        *)
(* threads interleave at every test made outside the lock and at every     *)
(* acquisition of the lock; a block under the lock writes what other       *)
(* threads read in one step.  FoundryLocalManager(...) returns the manager *)
(* or raises.                                                              *)
(***************************************************************************)
CallerIds == {"c1", "c2"}

\* calls of get_foundry_llm one thread makes
MaxCalls == 2

\* self._manager = None
NoManager == "None"

\* the test under the lock given up: the manager is taken for missing
manager_is_set_never(f) == FALSE

\* self._manager is not None, tested before the lock is taken
manager_is_set(f) == f.manager # NoManager

\* self._manager is not None, tested again under the lock
manager_is_set_locked(f) == f.manager # NoManager

InitFoundry ==
    /\ GInit /\ mcp_tools = {} /\ AInit /\ SInit /\ RInit0 /\ UInit
    /\ dates = NotRun /\ bulk = NotRun /\ search = NotRun
    /\ foundry = [instance |-> FALSE, initialized |-> FALSE, manager |-> NoManager,
                  endpoint |-> "None", lock |-> "free",
                  instances |-> 0, built |-> 0, failed |-> 0]
    /\ callers = [c \in CallerIds |-> [pc |-> "idle", calls |-> 0, outcome |-> "(none)"]]

\* the caller goes on at pc, or returns with outcome
GoTo(c, at) == [callers EXCEPT ![c].pc = at]
ReturnWith(c, outcome) == [callers EXCEPT ![c].pc = "idle", ![c].outcome = outcome]

\* a thread calls get_foundry_llm()
GetFoundryLlm(c) ==
    /\ callers[c].pc = "idle"
    /\ callers[c].calls < MaxCalls
    /\ callers' = [callers EXCEPT ![c].pc = "new", ![c].calls = @ + 1,
                                  ![c].outcome = "(running)"]
    /\ UNCHANGED foundry

\* __new__: if cls._instance is None
FoundryNew(c) ==
    /\ callers[c].pc = "new"
    /\ callers' = GoTo(c, IF foundry.instance THEN "init" ELSE "new_lock")
    /\ UNCHANGED foundry

\* with cls._lock / with self._lock: the lock is taken when it is free
Acquire(c) ==
    /\ callers[c].pc \in {"new_lock", "init_lock", "ensure_lock"}
    /\ foundry.lock = "free"
    /\ foundry' = [foundry EXCEPT !.lock = c]
    /\ callers' = GoTo(c, CASE callers[c].pc = "new_lock" -> "new_locked"
                            [] callers[c].pc = "init_lock" -> "init_locked"
                            [] OTHER -> "ensure_locked")

\* __new__ under the lock: the instance is created unless there is one
FoundryNewLocked(c) ==
    /\ callers[c].pc = "new_locked"
    /\ foundry' = IF foundry.instance THEN [foundry EXCEPT !.lock = "free"]
                  ELSE [foundry EXCEPT !.instance = TRUE, !.instances = @ + 1,
                                       !.lock = "free"]
    /\ callers' = GoTo(c, "init")

\* __init__: if self._initialized: return
FoundryInit(c) ==
    /\ callers[c].pc = "init"
    /\ callers' = GoTo(c, IF foundry.initialized THEN "ensure" ELSE "init_lock")
    /\ UNCHANGED foundry

\* __init__ under the lock: the fields are set unless they were
FoundryInitLocked(c) ==
    /\ callers[c].pc = "init_locked"
    /\ foundry' = IF foundry.initialized THEN [foundry EXCEPT !.lock = "free"]
                  ELSE [foundry EXCEPT !.manager = NoManager, !.endpoint = "None",
                                       !.initialized = TRUE, !.lock = "free"]
    /\ callers' = GoTo(c, "ensure")

\* get_llm -> _ensure_initialized: if self._manager is not None: return
EnsureInitialized(c) ==
    /\ callers[c].pc = "ensure"
    /\ callers' = IF manager_is_set(foundry) THEN ReturnWith(c, "llm")
                  ELSE GoTo(c, "ensure_lock")
    /\ UNCHANGED foundry

\* _ensure_initialized under the lock: return when the manager is there,
\* else construct it; when FoundryLocalManager raises, the exception goes
\* to the caller and no field is written
EnsureInitializedLocked(c) ==
    /\ callers[c].pc = "ensure_locked"
    /\ IF manager_is_set_locked(foundry)
       THEN /\ foundry' = [foundry EXCEPT !.lock = "free"]
            /\ callers' = ReturnWith(c, "llm")
       ELSE \/ /\ foundry' = [foundry EXCEPT !.manager = "manager",
                                             !.endpoint = "endpoint",
                                             !.built = @ + 1, !.lock = "free"]
               /\ callers' = ReturnWith(c, "llm")
            \/ /\ foundry' = [foundry EXCEPT !.failed = @ + 1, !.lock = "free"]
               /\ callers' = ReturnWith(c, "raise")

NextFoundry ==
    /\ \E c \in CallerIds :
          \/ GetFoundryLlm(c)
          \/ FoundryNew(c)
          \/ Acquire(c)
          \/ FoundryNewLocked(c)
          \/ FoundryInit(c)
          \/ FoundryInitLocked(c)
          \/ EnsureInitialized(c)
          \/ EnsureInitializedLocked(c)
    /\ UNCHANGED <<gvars, avars, svars, rvars, uvars, dates, bulk, search>>

SpecFoundry == InitFoundry /\ [][NextFoundry]_vars

(***************************************************************************)
(* Properties of the Foundry Local service (checked under SpecFoundry)     *)
(***************************************************************************)
\* C32: at most one instance of FoundryService is created and at most one
\* manager is constructed; once constructed the manager stays, and every
\* call that returned an LLM found it; a call that ends with the
\* exception of a failed construction leaves no manager and the lock free,
\* so that the next call constructs again
C32_OneInstanceOneManager ==
    /\ [](foundry.instances <= 1 /\ foundry.built <= 1)
    /\ [](\A c \in CallerIds :
             callers[c].outcome = "llm" => foundry.manager # NoManager)
    /\ [][/\ foundry.manager # NoManager => foundry'.manager = foundry.manager
          /\ \A c \in CallerIds :
                (callers[c].outcome # "raise" /\ callers'[c].outcome = "raise")
                    => /\ foundry'.manager = NoManager
                       /\ foundry'.built = foundry.built
                       /\ foundry'.lock = "free"]_vars

\* C32 happens: a construction failed, a later call constructed the
\* manager, and both threads got an LLM from it
C32_Witness ==
    /\ foundry.failed >= 1
    /\ foundry.built = 1
    /\ foundry.instances = 1
    /\ \A c \in CallerIds : callers[c].outcome = "llm"

====
